---- MODULE Spec2Model ----
(***************************************************************************)
(* Bridge Manager (Matrix application-service multiplexer).                *)
(*                                                                         *)
(* Two specifications share the store variables:                           *)
(*   Spec          the ingress: /homeserver/* and /bridge/* requests,      *)
(*                 their audit rows, the forwards and soft_delete_bridge.  *)
(*   SpecResolver  BridgeResolver.resolve applied to requests against a    *)
(*                 store that pings and sends fill.                        *)
(* and the functions that need no store have their own:                    *)
(*   SpecTranslate RequestContext.translate_username applied to usernames  *)
(*                 written as strings of characters, there and back.       *)
(*   SpecRoutes    a RouteRegistry that routes are added to and removed    *)
(*                 from and paths are matched against.                     *)
(*   SpecUpsert    TransactionMappingsRepository on a table of rows.       *)
(***************************************************************************)
EXTENDS Integers, Sequences, FiniteSets, TLC

(***************************************************************************)
(* Bounds of the model.                                                    *)
(***************************************************************************)
\* longest events array of a transaction body
MaxEvents == 2
\* number of inbound requests the ingress receives in one behaviour
MaxRequests == 2
\* number of bridges soft_delete_bridge is called for in one behaviour
MaxDeletes == 1

(***************************************************************************)
(* The bridges table. Rows are created by the orchestrator and never       *)
(* removed; soft deletion only sets deleted_at.                            *)
(***************************************************************************)
NoBridge == 0
BridgeIds == {1, 2, 3}

\* Bridges.bridge_service
BridgeServiceOf(b) == IF b = 3 THEN "discord" ELSE "whatsapp"

\* Bridges.as_token, one per bridge
AsTokenOf(b) == CASE b = 1 -> "as1" [] b = 2 -> "as2" [] OTHER -> "as3"

\* Bridges.orchestrator_id: an opaque id, no row id equals it
OrchestratorIdOf(b) == 10 + b

\* Bridges.owner_matrix_username (plain form)
OwnerOf(b) == IF b = 2 THEN "bob" ELSE "alice"

\* Homeserver.hs_token of the homeserver most bridges are registered to
HsToken == "hs"

\* Homeserver.hs_token of a second homeserver
OtherHsToken == "hs2"

\* the homeservers table, by hs_token
HomeserverTokens == {HsToken, OtherHsToken}

\* Bridges.hs_token: the token of the homeserver the bridge is registered to
HsTokenOf(b) == IF b = 2 THEN OtherHsToken ELSE HsToken

\* BridgeManagerConfig.AS_TOKEN
ManagerAsToken == "as_token_test"

NoToken == ""
UnknownToken == "asX"

(***************************************************************************)
(* Usernames. A username is held by its parts: enc says that the string    *)
(* matches BridgeManagerConfig.username_regex, whose groups are service    *)
(* (bridge_type), key (bridge_id) and local (bridge_username); a plain     *)
(* username @local:server has enc = FALSE. NoUser is the absent string.    *)
(***************************************************************************)
NoUser == [enc |-> FALSE, service |-> "", key |-> 0, local |-> ""]

Encoded(service, key, local) ==
    [enc |-> TRUE, service |-> service, key |-> key, local |-> local]

Plain(local) == [enc |-> FALSE, service |-> "", key |-> 0, local |-> local]

\* the JSON value null where a username is expected: not a string
NullUser == [enc |-> FALSE, service |-> "null", key |-> 0, local |-> ""]

\* re.match(config.username_regex, u)
MatchesUsernameRegex(u) == u.enc

\* re.match(r"@(?P<username>[^:]+):(?P<homeserver>[^\s/]+)", u): an encoded
\* username is of this form too
MatchesPlainPattern(u) == u \notin {NoUser, NullUser}

(***************************************************************************)
(* Transaction ids are strings of characters: "1" a digit, "a" a letter,   *)
(* "-" a character outside \w.                                             *)
(***************************************************************************)
NoTxn == << >>
TxnIds == { <<"1">>, <<"a">>, <<"1", "-">> }

IsDigit(c) == c = "1"
IsWordChar(c) == c \in {"1", "a"}

RECURSIVE WordPrefix(_)
\* the match of \w+ at the start of s (empty: no match)
WordPrefix(s) ==
    IF s = << >> \/ ~IsWordChar(Head(s)) THEN << >>
    ELSE <<Head(s)>> \o WordPrefix(Tail(s))

RECURSIVE DigitPrefix(_)
\* the match of \d+ at the start of s (empty: no match)
DigitPrefix(s) ==
    IF s = << >> \/ ~IsDigit(Head(s)) THEN << >>
    ELSE <<Head(s)>> \o DigitPrefix(Tail(s))

NoRoom == ""
RoomIds == {"r1"}


(***************************************************************************)
(* Requests. path.kind names the route of the path:                        *)
(*   "transactions"  _matrix/app/v1/transactions/<path.txn>                *)
(*   "users"         _matrix/app/v1/users/<path.user>                      *)
(*   "hs_ping"       _matrix/app/v1/ping                                   *)
(*   "client_ping"   _matrix/client/v1/appservice/<id>/ping                *)
(*   "versions"      _matrix/client/versions                               *)
(*   "send"          _matrix/client/v3/rooms/<path.room>/send/<type>/<txn> *)
(*   "create_room"   _matrix/client/v3/createRoom                          *)
(*   "register"      _matrix/client/v3/register                            *)
(* auth is the bearer token of the Authorization header (NoToken: no       *)
(* header), quser the user_id query parameter, hasBody whether the body is *)
(* a non-empty JSON object (there is no body otherwise), txn its           *)
(* transaction_id, events its events array (empty also when the key is     *)
(* absent). An event is held by the one username its scanned fields        *)
(* mention (sender) and its room_id; username is the username key of the   *)
(* body of a register request.                                             *)
(***************************************************************************)
PathOf(kind, txn, user) ==
    [kind |-> kind, txn |-> txn, user |-> user, room |-> NoRoom]

\* a path that names a room
RoomPathOf(kind, room) == [PathOf(kind, NoTxn, NoUser) EXCEPT !.room = room]

RequestOf(source, auth, path, quser, hasBody, txn, events) ==
    [source |-> source, auth |-> auth, path |-> path, quser |-> quser,
     hasBody |-> hasBody, txn |-> txn, events |-> events, username |-> NoUser]

\* a register request of a bridge: user_id query parameter and username of
\* the body
RegisterOf(auth, quser, username) ==
    [RequestOf("bridge", auth, PathOf("register", NoTxn, NoUser), quser,
               TRUE, NoTxn, << >>) EXCEPT !.username = username]

EventOf(sender, room) == [sender |-> sender, room |-> room]

NoRequest ==
    RequestOf("", NoToken, PathOf("", NoTxn, NoUser), NoUser, FALSE, NoTxn, << >>)

\* usernames that requests carry: the bot of bridge 1 named by its
\* orchestrator id and by its row id, the bot of bridge 2 named by its
\* orchestrator id and by its row id, and a bridge owner in plain form
UserB1Orch == Encoded("whatsapp", OrchestratorIdOf(1), "bot")
UserB1Id == Encoded("whatsapp", 1, "bot")
UserB2Orch == Encoded("whatsapp", OrchestratorIdOf(2), "bot")
UserB2Id == Encoded("whatsapp", 2, "bot")
UserAlice == Plain("alice")
UserBob == Plain("bob")
\* the user a bridge registers, before any rewriting
UserBot == Plain("bot")

SeqsUpTo(S, n) == UNION { [1..k -> S] : k \in 0..n }

(***************************************************************************)
(* Repositories (bridge_manager/database/repositories.py).                 *)
(***************************************************************************)
\* BridgesRepository.get_by_as_token without a cached entry: the row whose
\* as_token is tok; deleted_at is not part of the query
GetByAsToken(tok) ==
    IF \E b \in BridgeIds : AsTokenOf(b) = tok
    THEN CHOOSE b \in BridgeIds : AsTokenOf(b) = tok
    ELSE NoBridge

\* BridgesRepository.get_by_orchestrator_id without a cached entry
GetByOrchestratorId(key) ==
    IF \E b \in BridgeIds : OrchestratorIdOf(b) = key
    THEN CHOOSE b \in BridgeIds : OrchestratorIdOf(b) = key
    ELSE NoBridge

\* BaseRepository.get_by_id on the bridges table
GetById(key) == IF key \in BridgeIds THEN key ELSE NoBridge

\* BridgesRepository.get_by_owner_username_and_service: scalar_one_or_none
\* raises when several rows match; owner is the plain username searched
GetByOwnerAndService(owner, service) ==
    LET rows == { b \in BridgeIds :
                    /\ ~owner.enc
                    /\ OwnerOf(b) = owner.local
                    /\ BridgeServiceOf(b) = service }
    IN  IF Cardinality(rows) = 1 THEN CHOOSE b \in rows : TRUE ELSE NoBridge

\* an upsert that leaves an existing row as it is
TxUpsertKeepFirst(m, t, tok, b) ==
    IF t \in DOMAIN m THEN m
    ELSE (t :> [bridge_as_token |-> tok, bridge_id |-> b]) @@ m

\* TransactionMappingsRepository.upsert: one row per transaction_id; an
\* existing row takes the new token and the new bridge id, each when given
TxUpsert(m, t, tok, b) ==
    IF t \in DOMAIN m
    THEN [m EXCEPT ![t] =
            [bridge_as_token |-> IF tok # NoToken THEN tok ELSE @.bridge_as_token,
             bridge_id |-> IF b # NoBridge THEN b ELSE @.bridge_id]]
    ELSE (t :> [bridge_as_token |-> tok, bridge_id |-> b]) @@ m

\* TransactionMappingsRepository.get_bridge_by_transaction: the row or none
TxHasRow(m, t) == t \in DOMAIN m

\* TransactionMappingsRepository.delete_by_bridge_id
TxDeleteByBridge(m, b) ==
    [t \in { k \in DOMAIN m : m[k].bridge_id # b } |-> m[t]]

\* an upsert that leaves the row of a room that has one as it is
RoomUpsertKeepFirst(m, room, b) == m @@ (room :> b)

\* RoomBridgeMappingRepository.upsert: one row per room_id, bridge_id
\* overwritten
RoomUpsert(m, room, b) == (room :> b) @@ m

\* RoomBridgeMappingRepository.get_bridge_by_room_id: bridge_id or none
RoomBridge(m, room) == IF room \in DOMAIN m THEN m[room] ELSE NoBridge

\* RoomBridgeMappingRepository.delete_by_bridge_id
RoomDeleteByBridge(m, b) ==
    [r \in { k \in DOMAIN m : m[k] # b } |-> m[r]]

(***************************************************************************)
(* BridgeRegistry.get_bridge: the row found by the first argument given;   *)
(* no row raises ValueError; a whatsapp row becomes a WhatsappBridgeService *)
(* whose bridge_id is the id of the row holding its as_token; any other    *)
(* service gives None. The result is [raised, bridge].                     *)
(***************************************************************************)
BridgeServiceFor(row) ==
    IF row = NoBridge THEN [raised |-> TRUE, bridge |-> NoBridge]
    ELSE IF BridgeServiceOf(row) = "whatsapp"
         THEN [raised |-> FALSE, bridge |-> GetByAsToken(AsTokenOf(row))]
         ELSE [raised |-> FALSE, bridge |-> NoBridge]


(***************************************************************************)
(* BridgeResolver (appservice/bridge_resolver.py). A strategy gives the    *)
(* bridge_id of the BridgeService it returns, NoBridge for None; the       *)
(* ValueError of get_bridge is caught inside each strategy and any other   *)
(* exception by resolve, both count as None.                               *)
(***************************************************************************)
NoneIfRaised(res) == IF res.raised THEN NoBridge ELSE res.bridge

\* what a strategy gives when an exception leaves it
Raised == -1

\* BridgeResolver._from_auth_token
FromAuthToken(req) ==
    IF req.source # "bridge" THEN NoBridge
    ELSE IF req.auth = NoToken THEN NoBridge
    ELSE NoneIfRaised(BridgeServiceFor(GetByAsToken(req.auth)))

\* BridgeResolver._from_query_user_id
FromQueryUserId(req) ==
    IF req.quser = NoUser THEN NoBridge
    ELSE IF ~MatchesUsernameRegex(req.quser) THEN NoBridge
    ELSE NoneIfRaised(BridgeServiceFor(GetByOrchestratorId(req.quser.key)))

\* BridgeResolver._from_path_username: the path holds /<encoded username>
FromPathUsername(req) ==
    IF req.source # "homeserver" THEN NoBridge
    ELSE IF ~(req.path.kind = "users" /\ MatchesUsernameRegex(req.path.user))
         THEN NoBridge
    ELSE NoneIfRaised(BridgeServiceFor(GetById(req.path.user.key)))

\* the transaction id _from_transaction_id reads: the \w+ after
\* _matrix/app/v1/transactions/ in the path, else the body's transaction_id
ResolverTxnId(req) ==
    LET fromPath == IF req.path.kind = "transactions"
                    THEN WordPrefix(req.path.txn) ELSE NoTxn
        fromBody == IF req.hasBody THEN req.txn ELSE NoTxn
    IN  IF fromPath # NoTxn THEN fromPath ELSE fromBody

\* BridgeResolver._from_transaction_id
FromTransactionId(req, tx) ==
    IF req.source # "homeserver" THEN NoBridge
    ELSE LET t == ResolverTxnId(req)
         IN  IF t = NoTxn THEN NoBridge
             ELSE IF ~TxHasRow(tx, t) THEN NoBridge
             ELSE IF tx[t].bridge_as_token = NoToken THEN NoBridge
             ELSE NoneIfRaised(
                    BridgeServiceFor(GetByAsToken(tx[t].bridge_as_token)))

\* the set bridge_usernames that _from_transaction_events collects
EventUsernames(req) ==
    { req.events[i].sender : i \in { j \in 1..Len(req.events) :
                                       req.events[j].sender.enc } }

\* BridgeResolver._from_transaction_events; pick is list(bridge_usernames)[0],
\* the element the set's iteration order puts first. A sender that is null
\* has no startswith: the AttributeError leaves the strategy
FromTransactionEvents(req, pick) ==
    IF req.source # "homeserver" THEN NoBridge
    ELSE IF req.path.kind # "transactions" THEN NoBridge
    ELSE IF ~req.hasBody \/ req.events = << >> THEN NoBridge
    ELSE IF \E i \in 1..Len(req.events) : req.events[i].sender = NullUser
         THEN Raised
    ELSE IF EventUsernames(req) = {} THEN NoBridge
    ELSE IF ~MatchesUsernameRegex(pick) THEN NoBridge
    ELSE NoneIfRaised(BridgeServiceFor(GetByOrchestratorId(pick.key)))

\* the set room_ids that _from_room_id collects
EventRooms(req) ==
    { req.events[i].room : i \in { j \in 1..Len(req.events) :
                                     req.events[j].room # NoRoom } }

RECURSIVE FirstMappedRoom(_, _)
\* the first room of the iteration order that has a mapping, NoRoom if none
FirstMappedRoom(order, rooms) ==
    IF order = << >> THEN NoRoom
    ELSE IF RoomBridge(rooms, Head(order)) # NoBridge THEN Head(order)
    ELSE FirstMappedRoom(Tail(order), rooms)

\* BridgeResolver._from_room_id; order is the iteration order of room_ids;
\* the first mapped room decides, also when its bridge cannot be built
FromRoomId(req, rooms, order) ==
    IF req.source # "homeserver" THEN NoBridge
    ELSE IF req.path.kind # "transactions" THEN NoBridge
    ELSE IF ~req.hasBody \/ req.events = << >> THEN NoBridge
    ELSE IF EventRooms(req) = {} THEN NoBridge
    ELSE LET room == FirstMappedRoom(order, rooms)
         IN  IF room = NoRoom THEN NoBridge
             ELSE NoneIfRaised(BridgeServiceFor(GetById(RoomBridge(rooms, room))))

\* the strings of the body in the order _find_pattern_in_json walks them:
\* the events in order (a transaction_id is no username)
BodyStrings(req) == [i \in 1..Len(req.events) |-> req.events[i].sender]

RECURSIVE FirstMatching(_, _)
\* BridgeResolver._find_pattern_in_json: the first string matching the
\* pattern (encoded: username_regex, otherwise the plain pattern)
FirstMatching(strings, encoded) ==
    IF strings = << >> THEN NoUser
    ELSE IF encoded /\ MatchesUsernameRegex(Head(strings)) THEN Head(strings)
    ELSE IF ~encoded /\ MatchesPlainPattern(Head(strings)) THEN Head(strings)
    ELSE FirstMatching(Tail(strings), encoded)

\* BridgeResolver._from_body_username
FromBodyUsername(req) ==
    IF req.source # "homeserver" THEN NoBridge
    ELSE IF ~req.hasBody THEN NoBridge
    ELSE LET u == FirstMatching(BodyStrings(req), TRUE)
         IN  IF u = NoUser THEN NoBridge
             ELSE NoneIfRaised(BridgeServiceFor(GetById(u.key)))

\* BridgeResolver._from_owner_username
FromOwnerUsername(req) ==
    IF req.source # "homeserver" THEN NoBridge
    ELSE IF ~req.hasBody THEN NoBridge
    ELSE LET owner == FirstMatching(BodyStrings(req), FALSE)
             bot == FirstMatching(BodyStrings(req), TRUE)
         IN  IF owner = NoUser \/ bot = NoUser THEN NoBridge
             ELSE NoneIfRaised(
                    BridgeServiceFor(GetByOwnerAndService(owner, bot.service)))

\* the list with two strategies in exchanged places
ResolversTransactionIdFirst ==
    << "_from_auth_token", "_from_transaction_id", "_from_path_username",
       "_from_query_user_id", "_from_transaction_events", "_from_room_id",
       "_from_body_username", "_from_owner_username" >>

\* BridgeResolver.__init__: self._resolvers, in order
Resolvers ==
    << "_from_auth_token", "_from_query_user_id", "_from_path_username",
       "_from_transaction_id", "_from_transaction_events", "_from_room_id",
       "_from_body_username", "_from_owner_username" >>

\* the call resolver(source, headers, path, body_json, query_params)
CallResolver(name, req, tx, rooms, pick, order) ==
    CASE name = "_from_auth_token" -> FromAuthToken(req)
      [] name = "_from_query_user_id" -> FromQueryUserId(req)
      [] name = "_from_path_username" -> FromPathUsername(req)
      [] name = "_from_transaction_id" -> FromTransactionId(req, tx)
      [] name = "_from_transaction_events" -> FromTransactionEvents(req, pick)
      [] name = "_from_room_id" -> FromRoomId(req, rooms, order)
      [] name = "_from_body_username" -> FromBodyUsername(req)
      [] OTHER -> FromOwnerUsername(req)

\* BridgeResolver._get_method_name
GetMethodName(name) ==
    CASE name = "_from_auth_token" -> "auth_token"
      [] name = "_from_query_user_id" -> "query_user_id"
      [] name = "_from_path_username" -> "path_username"
      [] name = "_from_transaction_id" -> "transaction_id"
      [] name = "_from_transaction_events" -> "transaction_events"
      [] name = "_from_room_id" -> "room_id"
      [] name = "_from_body_username" -> "body_username"
      [] name = "_from_owner_username" -> "owner_username"
      [] OTHER -> "unknown"

\* the outcome of resolve: a bridge and its method, or BridgeNotFoundError
NotFound == [bridge |-> NoBridge, method |-> "not_found"]

RECURSIVE ResolveFrom(_, _, _, _, _, _)
RECURSIVE ResolveFromAborting(_, _, _, _, _, _)
\* a loop that an exception of a resolver ends
ResolveFromAborting(left, req, tx, rooms, pick, order) ==
    IF left = << >> THEN NotFound
    ELSE LET bridge == CallResolver(Head(left), req, tx, rooms, pick, order)
         IN  IF bridge = Raised THEN NotFound
             ELSE IF bridge # NoBridge
             THEN [bridge |-> bridge, method |-> GetMethodName(Head(left))]
             ELSE ResolveFromAborting(Tail(left), req, tx, rooms, pick, order)

\* the loop of BridgeResolver.resolve over the resolvers left: a resolver
\* that raises is logged and the next one is tried
ResolveFrom(left, req, tx, rooms, pick, order) ==
    IF left = << >> THEN NotFound
    ELSE LET bridge == CallResolver(Head(left), req, tx, rooms, pick, order)
         IN  IF bridge # NoBridge /\ bridge # Raised
             THEN [bridge |-> bridge, method |-> GetMethodName(Head(left))]
             ELSE ResolveFrom(Tail(left), req, tx, rooms, pick, order)

\* BridgeResolver.resolve
Resolve(req, tx, rooms, pick, order) ==
    ResolveFrom(Resolvers, req, tx, rooms, pick, order)


(***************************************************************************)
(* State.                                                                  *)
(***************************************************************************)
VARIABLES
    txmap,      \* table transaction_mappings: transaction_id -> row
    roommap,    \* table room_bridge_mappings: room_id -> bridge_id
    requests,   \* table requests (audit rows): id -> row
    nextId,     \* the id the next audit row gets (autoincrement)
    deleted,    \* the bridges whose deleted_at is set
    sd,         \* the soft_delete_bridge call under way: bridge and position
    purged,     \* history: the bridges whose soft_delete_bridge has returned
    reqs,       \* the inbound requests of the ingress, in order of arrival
    lastPing,   \* history: transaction_id -> the bridge whose ping wrote it last
    lastSend,   \* history: room_id -> the bridge whose send-event came last
    rreq,       \* the request BridgeResolver.resolve was last called with
    rres,       \* what that call gave: bridge and method, or not found
    rpick,      \* the username its events strategy iterated to first
    rorder,     \* the order its room strategy iterated the room ids in
    tuser,      \* the username translate_username is applied to
    tbridge,    \* the bridge of the request context it is applied under
    thome,      \* translate_username(tuser, to="homeserver")
    tback,      \* translate_username(thome, to="bridge")
    routes,     \* RouteRegistry._routes, in registration order
    fallback,   \* RouteRegistry._fallback_handler
    mpath,      \* the path match or match_or_fallback was last called with
    mres,       \* what that call gave: a handler, None or RouteNotFoundError
    txrows,     \* table transaction_mappings as its rows, in insertion order
    ucall,      \* the arguments of the last call of upsert
    uold,       \* history: the row of that transaction_id before the call
    eventKind,  \* table public.event_json: event_id -> what the event holds
    eventJson,  \* the event_ids inserted into public.event_json so far
    epQueue,    \* queue event_processor: the payloads waiting, by event_id
    parsedMessages,   \* table parsed_messages: its event_ids
    processedEvents,  \* table processed_events: its event_ids
    vsQueue,    \* queue vector_store: the messages enqueued, by event_id
    epw,        \* the workers of queue event_processor: position in process_event
    backfills,  \* history: the calls of process_unprocessed_events so far
    transcripts,  \* table vector_store.transcripts: the rows of the room
    chunks,     \* table vector_store.transcript_chunks, in insertion order
    vsJobs,     \* queue vector_store: the jobs waiting
    vsw,        \* the workers of queue vector_store: the job and its position
    vsCalls,    \* history: the jobs enqueued so far
    uw          \* the callers of TransactionMappingsRepository.upsert that run
                \* at the same time: the call, the row selected, the position

ingressVars == <<requests, nextId, deleted, sd, purged, reqs>>
resolverVars == <<lastPing, lastSend, rreq, rres, rpick, rorder>>
translateVars == <<tuser, tbridge, thome, tback>>
routeVars == <<routes, fallback, mpath, mres>>
upsertVars == <<txrows, ucall, uold>>
eventVars == <<eventKind, eventJson, epQueue, parsedMessages, processedEvents,
               vsQueue, epw, backfills>>
vectorVars == <<transcripts, chunks, vsJobs, vsw, vsCalls>>
raceVars == <<uw>>
pipelineVars == <<eventVars, vectorVars, raceVars>>
functionVars == <<translateVars, routeVars, upsertVars, pipelineVars>>
bridgeVars == <<txmap, roommap, ingressVars, resolverVars, translateVars,
                routeVars, upsertVars, raceVars>>
vars == <<txmap, roommap, requests, nextId, deleted, sd, purged, reqs,
          lastPing, lastSend, rreq, rres, rpick, rorder,
          tuser, tbridge, thome, tback, routes, fallback, mpath, mres,
          txrows, ucall, uold,
          eventKind, eventJson, epQueue, parsedMessages, processedEvents,
          vsQueue, epw, backfills,
          transcripts, chunks, vsJobs, vsw, vsCalls, uw>>

\* translate_username not called yet
NotTranslated == [raised |-> FALSE, value |-> << >>]

\* the handler None
NoHandler == ""

\* no path: match is not under way
NoPath == << >>

\* no call of match has returned
NoMatchResult == [call |-> "", handler |-> NoHandler, raised |-> FALSE]

\* no row of transaction_mappings
NoRow == [transaction_id |-> NoTxn, bridge_as_token |-> NoToken,
          bridge_id |-> NoBridge]

\* upsert has not been called
NoUpsert == [transaction_id |-> NoTxn, bridge_as_token |-> NoToken,
             bridge_id |-> NoBridge]

\* the workers of the queues event_processor and vector_store
Workers == {"w1", "w2"}

\* a worker that has taken no job
IdleWorker == [pc |-> "idle", event |-> "", fresh |-> FALSE, ret |-> "None"]

\* no event has been inserted and no job is queued
EventsIdle ==
    /\ eventKind = << >>
    /\ eventJson = {}
    /\ epQueue = << >>
    /\ parsedMessages = {}
    /\ processedEvents = {}
    /\ vsQueue = << >>
    /\ epw = [w \in Workers |-> IdleWorker]
    /\ backfills = 0

\* no job of the vector store
NoJob == [fn |-> "", event_id |-> "", message_type |-> ""]

\* a worker of queue vector_store that has taken no job
IdleVectorWorker == [pc |-> "idle", job |-> NoJob, todo |-> << >>,
                     elapsed |-> -1, ret |-> "None"]

\* the vector store holds nothing and no job is queued
VectorIdle ==
    /\ transcripts = {}
    /\ chunks = << >>
    /\ vsJobs = << >>
    /\ vsw = [w \in Workers |-> IdleVectorWorker]
    /\ vsCalls = 0

\* a caller of upsert that has not called
IdleCaller == [pc |-> "idle", call |-> NoUpsert, seen |-> NoRow, ret |-> "None"]

\* no upsert is under way
RaceIdle == uw = [w \in Workers |-> IdleCaller]

\* neither the message pipeline nor a caller of upsert is running
PipelineIdle == EventsIdle /\ VectorIdle /\ RaceIdle

\* no function is under way
FunctionsIdle ==
    /\ tuser = << >>
    /\ tbridge = NoBridge
    /\ thome = NotTranslated
    /\ tback = NotTranslated
    /\ routes = << >>
    /\ fallback = NoHandler
    /\ mpath = NoPath
    /\ mres = NoMatchResult
    /\ txrows = << >>
    /\ ucall = NoUpsert
    /\ uold = NoRow
    /\ PipelineIdle

EmptyMap == [x \in {} |-> NoBridge]

\* the bridges get_bridge can build a service for
WhatsappBridges == { b \in BridgeIds : BridgeServiceOf(b) = "whatsapp" }

NoResult == [bridge |-> NoBridge, method |-> ""]

(***************************************************************************)
(* SpecResolver: requests put to BridgeResolver.resolve while pings and    *)
(* sends of the bridges fill the mapping tables.                           *)
(***************************************************************************)
QueryUsers == {NoUser, UserB2Orch, UserAlice}

BridgeAuths == {NoToken, UnknownToken} \cup { AsTokenOf(b) : b \in BridgeIds }

HomeserverPaths ==
    { PathOf("transactions", t, NoUser) : t \in TxnIds }
        \cup { PathOf("users", NoTxn, u) : u \in {UserB1Id, UserB1Orch} }
        \cup { PathOf("hs_ping", NoTxn, NoUser) }

Events ==
    { EventOf(NoUser, r) : r \in RoomIds }
        \cup { EventOf(u, NoRoom) : u \in {UserB1Orch, UserB2Id, UserAlice} }

\* events arrays with an event whose sender is null
MalformedEvents ==
    { << EventOf(NullUser, r) >> : r \in RoomIds \cup {NoRoom} }
        \cup { << EventOf(NullUser, NoRoom), e >> : e \in Events }
        \cup { << e, EventOf(NullUser, NoRoom) >> : e \in Events }

ResolverRequests ==
    { RequestOf("bridge", a, PathOf("versions", NoTxn, NoUser), q,
                FALSE, NoTxn, << >>) : a \in BridgeAuths, q \in QueryUsers }
    \cup
    { RequestOf("homeserver", HsToken, p, q, FALSE, NoTxn, << >>) :
        p \in HomeserverPaths, q \in QueryUsers }
    \cup
    UNION { { RequestOf("homeserver", HsToken, p, q, TRUE, t, ev) :
                p \in HomeserverPaths, q \in QueryUsers } :
            t \in {NoTxn, <<"a">>}, ev \in SeqsUpTo(Events, MaxEvents) }
    \cup
    { RequestOf("homeserver", HsToken, PathOf("transactions", <<"1">>, NoUser),
                NoUser, TRUE, NoTxn, ev) : ev \in MalformedEvents }

\* the orders a set can be iterated in
Orders(S) ==
    { o \in [1..Cardinality(S) -> S] :
        \A i, j \in 1..Cardinality(S) : i # j => o[i] # o[j] }

InitResolver ==
    /\ txmap = EmptyMap
    /\ roommap = EmptyMap
    /\ lastPing = [t \in TxnIds |-> NoBridge]
    /\ lastSend = [room \in RoomIds |-> NoBridge]
    /\ rreq = NoRequest
    /\ rres = NoResult
    /\ rpick = NoUser
    /\ rorder = << >>
    /\ FunctionsIdle
    /\ requests = EmptyMap
    /\ nextId = 1
    /\ deleted = {}
    /\ sd = [bridge |-> NoBridge, pc |-> "idle"]
    /\ purged = {}
    /\ reqs = << >>

\* the store effect of WhatsappBridgeService.ping of bridge b with
\* transaction_id t, answered 2xx by the homeserver
RPing(b, t) ==
    /\ rreq = NoRequest
    /\ txmap' = TxUpsert(txmap, t, AsTokenOf(b), b)
    /\ lastPing' = [lastPing EXCEPT ![t] = b]
    /\ UNCHANGED <<roommap, lastSend, rreq, rres, rpick, rorder, ingressVars, functionVars>>

\* the store effect of MatrixClientAPIHandlers.room_send_event of bridge b
\* for the room
RSend(b, room) ==
    /\ rreq = NoRequest
    /\ roommap' = RoomUpsert(roommap, room, b)
    /\ lastSend' = [lastSend EXCEPT ![room] = b]
    /\ UNCHANGED <<txmap, lastPing, rreq, rres, rpick, rorder, ingressVars, functionVars>>

\* BridgeResolver.resolve called with req
RResolve(req, pick, order) ==
    /\ rreq = NoRequest
    /\ rreq' = req
    /\ rpick' = pick
    /\ rorder' = order
    /\ rres' = Resolve(req, txmap, roommap, pick, order)
    /\ UNCHANGED <<txmap, roommap, lastPing, lastSend, ingressVars, functionVars>>

\* the caller of resolve is done with the result
RReturn ==
    /\ rreq # NoRequest
    /\ rreq' = NoRequest /\ rres' = NoResult /\ rpick' = NoUser /\ rorder' = << >>
    /\ UNCHANGED <<txmap, roommap, lastPing, lastSend, ingressVars, functionVars>>

NextResolver ==
    \/ RReturn
    \/ \E b \in WhatsappBridges, t \in TxnIds : RPing(b, t)
    \/ \E b \in WhatsappBridges, room \in RoomIds : RSend(b, room)
    \/ \E req \in ResolverRequests :
         \E pick \in (IF EventUsernames(req) = {} THEN {NoUser}
                      ELSE EventUsernames(req)),
            order \in Orders(EventRooms(req)) :
              RResolve(req, pick, order)

SpecResolver == InitResolver /\ [][NextResolver]_vars


(***************************************************************************)
(* Properties of the resolver.                                             *)
(***************************************************************************)
\* the strategies in the order the specification lists them
ClaimedOrder ==
    << "auth_token", "query_user_id", "path_username", "transaction_id",
       "transaction_events", "room_id", "body_username", "owner_username" >>

\* what the strategy of that method gives for the request resolved last
StrategyYield(method) ==
    CASE method = "auth_token" -> FromAuthToken(rreq)
      [] method = "query_user_id" -> FromQueryUserId(rreq)
      [] method = "path_username" -> FromPathUsername(rreq)
      [] method = "transaction_id" -> FromTransactionId(rreq, txmap)
      [] method = "transaction_events" -> FromTransactionEvents(rreq, rpick)
      [] method = "room_id" -> FromRoomId(rreq, roommap, rorder)
      [] method = "body_username" -> FromBodyUsername(rreq)
      [] OTHER -> FromOwnerUsername(rreq)

Yielding ==
    { i \in 1..Len(ClaimedOrder) :
        StrategyYield(ClaimedOrder[i]) \notin {NoBridge, Raised} }

FirstYielding == CHOOSE i \in Yielding : \A j \in Yielding : i <= j

C4_FirstStrategyWins ==
    (rreq # NoRequest /\ Yielding # {})
        => rres = [bridge |-> StrategyYield(ClaimedOrder[FirstYielding]),
                   method |-> ClaimedOrder[FirstYielding]]

\* a request that two strategies resolve to different bridges
C4_Witness ==
    /\ rreq # NoRequest
    /\ \E i, j \in Yielding :
         /\ i < j
         /\ StrategyYield(ClaimedOrder[i]) # StrategyYield(ClaimedOrder[j])
         /\ rres.method = ClaimedOrder[i]


C18_RaisedStrategyIsNoMatch ==
    (/\ rreq # NoRequest
     /\ \E i \in 1..Len(ClaimedOrder) : StrategyYield(ClaimedOrder[i]) = Raised)
        => IF Yielding = {}
           THEN rres = NotFound
           ELSE rres = [bridge |-> StrategyYield(ClaimedOrder[FirstYielding]),
                        method |-> ClaimedOrder[FirstYielding]]

\* the events strategy raised and the request was resolved by the body
\* username strategy, two strategies after it
C18_Witness ==
    /\ rreq # NoRequest
    /\ StrategyYield("transaction_id") = NoBridge
    /\ StrategyYield("transaction_events") = Raised
    /\ StrategyYield("room_id") = NoBridge
    /\ rres = [bridge |-> 2, method |-> "body_username"]

InQuery(u) ==
    RequestOf("homeserver", HsToken, PathOf("hs_ping", NoTxn, NoUser), u,
              FALSE, NoTxn, << >>)

InPath(u) ==
    RequestOf("homeserver", HsToken, PathOf("users", NoTxn, u), NoUser,
              FALSE, NoTxn, << >>)

InEvents(u) ==
    RequestOf("homeserver", HsToken, PathOf("transactions", <<"a">>, NoUser),
              NoUser, TRUE, NoTxn, << EventOf(u, NoRoom) >>)

\* the encoded usernames the request resolved last carries
CarriedUsernames ==
    { u \in {rreq.quser, rreq.path.user} \cup EventUsernames(rreq) :
        MatchesUsernameRegex(u) }

\* C25: an encoded username gives the same bridge to each of the four
\* strategies that read usernames: query user_id, path, transaction events
\* and body
C25_UsernameStrategiesAgree ==
    rreq # NoRequest =>
        \A u \in CarriedUsernames :
            /\ FromQueryUserId(InQuery(u)) = FromPathUsername(InPath(u))
            /\ FromPathUsername(InPath(u)) = FromTransactionEvents(InEvents(u), u)
            /\ FromTransactionEvents(InEvents(u), u) = FromBodyUsername(InEvents(u))

\* C28: the bridge resolve gave is the bridge it gives for the same request
\* and the same tables under every iteration order of the sets of
\* usernames and room ids collected from the events
C28_ResolutionDeterministic ==
    rreq # NoRequest =>
        \A pick \in (IF EventUsernames(rreq) = {} THEN {NoUser}
                     ELSE EventUsernames(rreq)),
           order \in Orders(EventRooms(rreq)) :
            Resolve(rreq, txmap, roommap, pick, order).bridge = rres.bridge


(***************************************************************************)
(* The ingress (appservice/appservice.py). An inbound request is a record  *)
(*   in      the request as received                                       *)
(*   pc      "created": RequestContext.create returned; "pinged": the ping *)
(*           handler did its first step; "forwarded": the outbound request *)
(*           is sent and its response awaited; "done": answered            *)
(*   err     why RequestContext.create raised, "" when it did not          *)
(*   bridge  bridge_id of request_ctx.bridge                               *)
(*   bkind   what request_ctx.bridge is: "service" a BridgeService,        *)
(*           "mapping" a transaction_mappings row                          *)
(*   row     request_ctx.request_id, 0 when no context exists              *)
(*   out     the outbound request sent, NoOut when none                    *)
(*   up      the status the upstream answered, 0 when none (yet)           *)
(*   status  the status answered to the caller, 0 while pending            *)
(*   hs      hs_token of request_ctx.homeserver                            *)
(*   timeout history: whether the outbound call timed out                  *)
(*   late    history: the bridges whose soft_delete_bridge had returned    *)
(*           when the request arrived                                      *)
(***************************************************************************)
NoOut ==
    [to |-> "", bridge |-> NoBridge, auth |-> NoToken, txn |-> NoTxn,
     quser |-> NoUser, username |-> NoUser]

\* RequestContext.discover_bridge, source bridge: [err, bridge, bkind]
DiscoverBridgeFromBridge(req) ==
    IF req.auth = NoToken
    THEN [err |-> "bridge", bridge |-> NoBridge, bkind |-> ""]
    ELSE LET res == BridgeServiceFor(GetByAsToken(req.auth))
         IN  IF res.raised
             THEN [err |-> "bridge", bridge |-> NoBridge, bkind |-> ""]
             ELSE IF res.bridge = NoBridge
                  THEN [err |-> "", bridge |-> NoBridge, bkind |-> ""]
                  ELSE [err |-> "", bridge |-> res.bridge, bkind |-> "service"]

\* the transaction id discover_bridge looks up: the digits that follow
\* transactions/ in the path, else the transaction_id of the body
DiscoverTxnId(req) ==
    LET inPath == IF req.path.kind = "transactions"
                  THEN DigitPrefix(req.path.txn) ELSE NoTxn
        inBody == IF req.hasBody THEN req.txn ELSE NoTxn
    IN  IF inPath # NoTxn THEN inPath ELSE inBody

\* steps c, d of discover_bridge: the owner's plain username and the
\* service of an encoded username, both found in the body
DiscoverByOwner(req) ==
    LET owner == FirstMatching(BodyStrings(req), FALSE)
        bot == FirstMatching(BodyStrings(req), TRUE)
    IN  IF owner = NoUser \/ bot = NoUser
        THEN [err |-> "bridge", bridge |-> NoBridge, bkind |-> ""]
        ELSE LET res == BridgeServiceFor(GetByOwnerAndService(owner, bot.service))
             IN  IF res.raised \/ res.bridge = NoBridge
                 THEN [err |-> "bridge", bridge |-> NoBridge, bkind |-> ""]
                 ELSE [err |-> "", bridge |-> res.bridge, bkind |-> "service"]

\* steps b to d of discover_bridge
DiscoverByTransaction(req, tx) ==
    LET t == DiscoverTxnId(req)
    IN  IF t # NoTxn /\ TxHasRow(tx, t)
        THEN [err |-> "", bridge |-> tx[t].bridge_id, bkind |-> "mapping"]
        ELSE DiscoverByOwner(req)

\* RequestContext.discover_bridge, source homeserver
DiscoverBridgeFromHomeserver(req, tx) ==
    IF MatchesUsernameRegex(req.path.user)
    THEN LET res == BridgeServiceFor(GetById(req.path.user.key))
         IN  IF res.raised
             THEN [err |-> "bridge", bridge |-> NoBridge, bkind |-> ""]
             ELSE IF res.bridge # NoBridge
                  THEN [err |-> "", bridge |-> res.bridge, bkind |-> "service"]
                  ELSE DiscoverByTransaction(req, tx)
    ELSE DiscoverByTransaction(req, tx)

\* RequestContext.discover_homeserver: whether a homeserver is found
DiscoverHomeserver(req) ==
    IF req.source = "homeserver" THEN req.auth \in HomeserverTokens
    ELSE GetByAsToken(req.auth) # NoBridge

\* the hs_token of the homeserver discover_homeserver finds
HomeserverOf(req) ==
    IF req.source = "homeserver" THEN req.auth
    ELSE HsTokenOf(GetByAsToken(req.auth))

\* RequestContext.create up to the call of the constructor; a bridge
\* request whose bridge is None fails in log_inbound_request ("context")
CreateContext(req, tx) ==
    LET found == IF req.source = "bridge" THEN DiscoverBridgeFromBridge(req)
                 ELSE DiscoverBridgeFromHomeserver(req, tx)
    IN  IF found.err # "" THEN found
        ELSE IF ~DiscoverHomeserver(req) THEN [found EXCEPT !.err = "homeserver"]
        ELSE IF found.bridge = NoBridge THEN [found EXCEPT !.err = "context"]
        ELSE found

\* the requests put to the ingress
PingBodies == { <<FALSE, NoTxn>>, <<TRUE, NoTxn>>, <<TRUE, <<"1">> >> }

IngressRequests ==
    { RequestOf("bridge", AsTokenOf(b), PathOf("client_ping", NoTxn, NoUser),
                NoUser, body[1], body[2], << >>) :
        b \in WhatsappBridges, body \in PingBodies }
    \cup
    { RequestOf("bridge", a, PathOf("versions", NoTxn, NoUser), NoUser,
                FALSE, NoTxn, << >>) :
        a \in {NoToken, UnknownToken, AsTokenOf(1), AsTokenOf(3)} }
    \cup
    { RequestOf("homeserver", HsToken, PathOf("hs_ping", NoTxn, NoUser), NoUser,
                body[1], body[2], << >>) :
        body \in { <<FALSE, NoTxn>>, <<TRUE, <<"1">> >> } }
    \cup
    { RequestOf("homeserver", HsToken, PathOf("transactions", <<"1">>, NoUser),
                NoUser, TRUE, NoTxn, ev) :
        ev \in { << >>, <<EventOf(UserAlice, NoRoom), EventOf(UserB1Orch, NoRoom)>> } }
    \cup
    { RequestOf("bridge", AsTokenOf(1), RoomPathOf("send", "r1"), q,
                TRUE, NoTxn, << >>) : q \in {NoUser, UserBot} }
    \cup
    { RegisterOf(AsTokenOf(1), q, UserBot) : q \in {NoUser, UserBot} }
    \cup
    { RequestOf("bridge", AsTokenOf(2), RoomPathOf("send", "r1"), NoUser,
                TRUE, NoTxn, << >>),
      RequestOf("bridge", AsTokenOf(1), RoomPathOf("create_room", NoRoom), UserBot,
                TRUE, NoTxn, << >>),
      RequestOf("homeserver", HsToken, PathOf("transactions", <<"1">>, NoUser),
                NoUser, TRUE, NoTxn,
                <<EventOf(UserBob, NoRoom), EventOf(UserB2Orch, NoRoom)>>) }
    \cup
    { RequestOf("homeserver", HsToken, PathOf("users", NoTxn, UserB1Id), NoUser,
                FALSE, NoTxn, << >>),
      RequestOf("homeserver", UnknownToken, PathOf("hs_ping", NoTxn, NoUser),
                NoUser, TRUE, <<"1">>, << >>) }

\* RequestsRepository.create in log_inbound_request: the new audit row
\* (the insert is taken to succeed); req is history, the inbound request
\* the row was written for
AuditRow(r, req, b) ==
    [req |-> r, source |-> req.source, bridge_id |-> b,
     outbound |-> FALSE, response_status |-> 0]

\* BaseRepository.update on the requests table: a row that is gone is left
\* alone
UpdateRow(rows, id, field, value) ==
    IF id \in DOMAIN rows THEN [rows EXCEPT ![id][field] = value] ELSE rows

\* RequestsRepository.delete_by_bridge_id
RequestsDeleteByBridge(rows, b) ==
    [id \in { k \in DOMAIN rows : rows[k].bridge_id # b } |-> rows[id]]

Init ==
    /\ txmap = EmptyMap
    /\ roommap = EmptyMap
    /\ requests = EmptyMap
    /\ nextId = 1
    /\ deleted = {}
    /\ sd = [bridge |-> NoBridge, pc |-> "idle"]
    /\ purged = {}
    /\ reqs = << >>
    /\ lastPing = [t \in TxnIds |-> NoBridge]
    /\ lastSend = [room \in RoomIds |-> NoBridge]
    /\ rreq = NoRequest
    /\ rres = NoResult
    /\ rpick = NoUser
    /\ rorder = << >>
    /\ FunctionsIdle

\* homeserver_catchall / bridge_catchall up to the return of
\* RequestContext.create: the context with its audit row, or the answer
\* 500 of the handler for any exception
Arrive(req) ==
    /\ Len(reqs) < MaxRequests
    /\ LET ctx == CreateContext(req, txmap)
           r == Len(reqs) + 1
       IN  IF ctx.err # ""
           THEN /\ reqs' = Append(reqs,
                      [in |-> req, pc |-> "done", err |-> ctx.err,
                       bridge |-> NoBridge, bkind |-> "", row |-> 0,
                       out |-> NoOut, up |-> 0, ret |-> 0, status |-> 500,
                       hs |-> NoToken, timeout |-> FALSE, late |-> purged])
                /\ UNCHANGED <<requests, nextId>>
           ELSE /\ reqs' = Append(reqs,
                      [in |-> req, pc |-> "created", err |-> "",
                       bridge |-> ctx.bridge, bkind |-> ctx.bkind, row |-> nextId,
                       out |-> NoOut, up |-> 0, ret |-> 0, status |-> 0,
                       hs |-> HomeserverOf(req), timeout |-> FALSE,
                       late |-> purged])
                /\ requests' = (nextId :> AuditRow(r, req, ctx.bridge)) @@ requests
                /\ nextId' = nextId + 1
    /\ UNCHANGED <<txmap, roommap, deleted, sd, purged, resolverVars, functionVars>>

\* what the caller gets when log_response is called with the JSONResponse
\* of a handler or of an except clause: log_response reads response.content,
\* which a starlette response does not have (its bytes are in body), so the
\* AttributeError sends the catch-all into except Exception, whose own
\* log_response raises again and leaves the endpoint; the framework answers
\* with its internal server error
LogResponseFails == 500

\* the handler returned a response of that status, or raised and the
\* except clause built one: log_response of the catch-all writes nothing
\* on the audit row and the caller gets the answer of the failure
Answer(r, status) ==
    /\ reqs' = [reqs EXCEPT ![r].pc = "done", ![r].ret = status,
                            ![r].status = LogResponseFails]
    /\ requests' = requests

\* the same after the upstream answered with status up, which log_response
\* inside send_request wrote on the audit row from the httpx response
AnswerUpstream(r, up, status) ==
    /\ reqs' = [reqs EXCEPT ![r].pc = "done", ![r].up = up, ![r].ret = status,
                            ![r].status = LogResponseFails]
    /\ requests' = UpdateRow(requests, reqs[r].row, "response_status", up)

\* send_request up to the await of the response: the outbound request is
\* logged on the audit row and sent
Send(r, out) ==
    /\ reqs' = [reqs EXCEPT ![r].pc = "forwarded", ![r].out = out]
    /\ requests' = UpdateRow(requests, reqs[r].row, "outbound", TRUE)

\* the outbound request BridgeService.send_request builds: the bearer is
\* the hs_token of request_ctx.homeserver
ToBridge(r) ==
    [NoOut EXCEPT !.to = "bridge", !.bridge = reqs[r].bridge,
                  !.auth = reqs[r].hs, !.txn = reqs[r].in.txn]

\* HomeserverService._register_routes: the handler of a path
HomeserverRoutes(kind) ==
    CASE kind = "hs_ping" -> "ping"
      [] kind = "users" -> "users"
      [] kind = "transactions" -> "transactions"
      [] OTHER -> "unhandled_endpoint"

\* HomeserverService.handle_request: the handler of the path up to its
\* first await. ping answers 200 {}; users calls send_request without its
\* request_ctx argument, a TypeError; transactions answers 400 without a
\* body and calls send_request of request_ctx.bridge, which a
\* transaction_mappings row does not have
HomeserverDispatch(r) ==
    /\ r \in 1..Len(reqs)
    /\ reqs[r].pc = "created"
    /\ reqs[r].in.source = "homeserver"
    /\ LET handler == HomeserverRoutes(reqs[r].in.path.kind)
       IN  CASE handler = "ping" -> Answer(r, 200)
             [] handler = "users" -> Answer(r, 500)
             [] handler = "transactions" ->
                  IF ~reqs[r].in.hasBody THEN Answer(r, 400)
                  ELSE IF reqs[r].bkind # "service" THEN Answer(r, 500)
                  ELSE Send(r, ToBridge(r))
             [] OTHER -> Answer(r, 501)
    /\ UNCHANGED <<txmap, roommap, nextId, deleted, sd, purged, resolverVars, functionVars>>

\* a ping whose body lacks transaction_id is rejected whatever else it has
PingRejectsNoBody(req) == ~req.hasBody

\* WhatsappBridgeService.ping: the two checks that raise ValueError
PingRejects(req) == ~req.hasBody \/ req.txn = NoTxn

\* the ping is sent to the homeserver before its mapping is stored
PingStepsSendFirst == << "send", "upsert" >>

\* WhatsappBridgeService.ping after its checks: the upsert of the
\* TransactionMapping, then homeserver.send_request
PingSteps == << "upsert", "send" >>

\* the outbound request HomeserverService.send_request builds
ToHomeserver(r) ==
    [NoOut EXCEPT !.to = "homeserver", !.auth = ManagerAsToken,
                  !.txn = reqs[r].in.txn]

\* the same by a handler that passes on request_ctx.query_params and
\* request_ctx.body_json (register, room_send_event)
ToHomeserverWithQuery(r) ==
    [ToHomeserver(r) EXCEPT !.quser = reqs[r].in.quser,
                            !.username = reqs[r].in.username]

\* send_request with query parameters: log_outbound_request builds
\* dict(request.url.query) from the bytes of the query string, a TypeError
\* unless the query is empty, which the ingress answers with 500 before
\* anything is sent
SendLogged(r, out) ==
    IF out.quser # NoUser THEN Answer(r, 500) ELSE Send(r, out)

\* one step of the ping handler of request r
PingDo(r, step, pc) ==
    IF step = "upsert"
    THEN /\ txmap' = TxUpsert(txmap, reqs[r].in.txn, reqs[r].in.auth, reqs[r].bridge)
         /\ reqs' = [reqs EXCEPT ![r].pc = pc]
         /\ UNCHANGED requests
    ELSE /\ reqs' = [reqs EXCEPT ![r].pc = pc, ![r].out = ToHomeserver(r)]
         /\ requests' = UpdateRow(requests, reqs[r].row, "outbound", TRUE)
         /\ UNCHANGED txmap

\* BridgeService.handle_request: the route of the path and its handler up
\* to its first database write or await
BridgeDispatch(r) ==
    /\ r \in 1..Len(reqs)
    /\ reqs[r].pc = "created"
    /\ reqs[r].in.source = "bridge"
    /\ CASE reqs[r].in.path.kind = "versions" ->
              Send(r, ToHomeserver(r)) /\ UNCHANGED <<txmap, roommap>>
         [] reqs[r].in.path.kind = "client_ping" ->
              IF PingRejects(reqs[r].in)
              THEN Answer(r, 500) /\ UNCHANGED <<txmap, roommap>>
              ELSE PingDo(r, PingSteps[1], "pinged") /\ UNCHANGED roommap
         [] reqs[r].in.path.kind = "register" ->
              SendLogged(r, ToHomeserverWithQuery(r))
                  /\ UNCHANGED <<txmap, roommap>>
         [] reqs[r].in.path.kind = "send" ->
              /\ roommap' = RoomUpsert(roommap, reqs[r].in.path.room, reqs[r].bridge)
              /\ reqs' = [reqs EXCEPT ![r].pc = "mapped"]
              /\ UNCHANGED <<txmap, requests>>
         [] OTHER -> Answer(r, 501) /\ UNCHANGED <<txmap, roommap>>
    /\ UNCHANGED <<nextId, deleted, sd, purged, resolverVars, functionVars>>

\* MatrixClientAPIHandlers.room_send_event after its upsert:
\* homeserver.send_request with the query parameters of the request
RoomSendForward(r) ==
    /\ r \in 1..Len(reqs)
    /\ reqs[r].pc = "mapped"
    /\ SendLogged(r, ToHomeserverWithQuery(r))
    /\ UNCHANGED <<txmap, roommap, nextId, deleted, sd, purged, resolverVars, functionVars>>

\* WhatsappBridgeService.ping, its second step
PingSecond(r) ==
    /\ r \in 1..Len(reqs)
    /\ reqs[r].pc = "pinged"
    /\ PingDo(r, PingSteps[2], "forwarded")
    /\ UNCHANGED <<roommap, nextId, deleted, sd, purged, resolverVars, functionVars>>

\* HomeserverService.send_request after the await: the homeserver answered
\* with the status; a status that is no success raises, which the ingress
\* answers with 500
HomeserverResponds(r, status) ==
    /\ r \in 1..Len(reqs)
    /\ reqs[r].pc = "forwarded"
    /\ reqs[r].out.to = "homeserver"
    /\ AnswerUpstream(r, status, IF status \in 200..299 THEN status ELSE 500)
    /\ UNCHANGED <<txmap, roommap, nextId, deleted, sd, purged, resolverVars, functionVars>>

\* HomeserverService.send_request: httpx.TimeoutException makes it return
\* a JSONResponse of status 504 without a call of log_response; the
\* handlers return it to the catch-all
HomeserverTimesOut(r) ==
    /\ r \in 1..Len(reqs)
    /\ reqs[r].pc = "forwarded"
    /\ reqs[r].out.to = "homeserver"
    /\ reqs' = [reqs EXCEPT ![r].pc = "done", ![r].ret = 504,
                            ![r].status = LogResponseFails,
                            ![r].timeout = TRUE]
    /\ requests' = requests
    /\ UNCHANGED <<txmap, roommap, nextId, deleted, sd, purged, resolverVars, functionVars>>

\* BridgeService.send_request after the await: the status of the bridge is
\* returned as it is
BridgeResponds(r, status) ==
    /\ r \in 1..Len(reqs)
    /\ reqs[r].pc = "forwarded"
    /\ reqs[r].out.to = "bridge"
    /\ AnswerUpstream(r, status, status)
    /\ UNCHANGED <<txmap, roommap, nextId, deleted, sd, purged, resolverVars, functionVars>>

\* the statuses an upstream answers with
UpstreamStatuses == {200, 404}

(***************************************************************************)
(* BridgeRegistry.soft_delete_bridge: four repository calls, each with a   *)
(* session and a commit of its own.                                        *)
(***************************************************************************)
SoftDeleteMark(b) ==
    /\ sd.pc = "idle"
    /\ Cardinality(deleted \cup {b}) <= MaxDeletes
    /\ deleted' = deleted \cup {b}
    /\ sd' = [bridge |-> b, pc |-> "marked"]
    /\ UNCHANGED <<txmap, roommap, requests, nextId, purged, reqs, resolverVars, functionVars>>

SoftDeleteRequests ==
    /\ sd.pc = "marked"
    /\ requests' = RequestsDeleteByBridge(requests, sd.bridge)
    /\ sd' = [sd EXCEPT !.pc = "requests"]
    /\ UNCHANGED <<txmap, roommap, nextId, deleted, purged, reqs, resolverVars, functionVars>>

SoftDeleteTransactions ==
    /\ sd.pc = "requests"
    /\ txmap' = TxDeleteByBridge(txmap, sd.bridge)
    /\ sd' = [sd EXCEPT !.pc = "transactions"]
    /\ UNCHANGED <<roommap, requests, nextId, deleted, purged, reqs, resolverVars, functionVars>>

SoftDeleteRooms ==
    /\ sd.pc = "transactions"
    /\ roommap' = RoomDeleteByBridge(roommap, sd.bridge)
    /\ sd' = [bridge |-> NoBridge, pc |-> "idle"]
    /\ purged' = purged \cup {sd.bridge}
    /\ UNCHANGED <<txmap, requests, nextId, deleted, reqs, resolverVars, functionVars>>

Next ==
    \/ \E req \in IngressRequests : Arrive(req)
    \/ \E r \in 1..MaxRequests : HomeserverDispatch(r)
    \/ \E r \in 1..MaxRequests : BridgeDispatch(r)
    \/ \E r \in 1..MaxRequests : PingSecond(r)
    \/ \E r \in 1..MaxRequests : RoomSendForward(r)
    \/ \E r \in 1..MaxRequests, status \in UpstreamStatuses :
         HomeserverResponds(r, status)
    \/ \E r \in 1..MaxRequests : HomeserverTimesOut(r)
    \/ \E r \in 1..MaxRequests, status \in UpstreamStatuses :
         BridgeResponds(r, status)
    \/ \E b \in BridgeIds : SoftDeleteMark(b)
    \/ SoftDeleteRequests
    \/ SoftDeleteTransactions
    \/ SoftDeleteRooms

Spec == Init /\ [][Next]_vars


(***************************************************************************)
(* Properties of the ingress.                                              *)
(***************************************************************************)
\* the audit rows written for inbound request r
RowsOf(r) == { id \in DOMAIN requests : requests[id].req = r }

IsClientPing(q) == q.in.source = "bridge" /\ q.in.path.kind = "client_ping"

IsHomeserverPing(q) == q.in.source = "homeserver" /\ q.in.path.kind = "hs_ping"

\* C1: every inbound request has exactly one audit row, whatever its
\* outcome (as long as no bridge is soft-deleted, which removes rows)
C1_ExactlyOneAuditRow ==
    deleted = {} => \A r \in 1..Len(reqs) : Cardinality(RowsOf(r)) = 1

\* C3: while a forwarded ping is out at the homeserver (and no bridge has
\* been soft-deleted) the TransactionMapping of its transaction_id is
\* stored, so a request the homeserver makes because of it finds the row
C3_MappingCommittedBeforeForward ==
    deleted = {} =>
        \A r \in 1..Len(reqs) :
            IsClientPing(reqs[r]) /\ reqs[r].out.to = "homeserver"
                => TxHasRow(txmap, reqs[r].in.txn)

\* a ping is out at the homeserver and a homeserver request naming its
\* transaction_id arrived meanwhile and was given the bridge of the ping
C3_Witness ==
    \E r, h \in 1..Len(reqs) :
        /\ IsClientPing(reqs[r]) /\ reqs[r].pc = "forwarded"
        /\ deleted = {}
        /\ h > r
        /\ reqs[h].in.source = "homeserver"
        /\ DiscoverTxnId(reqs[h].in) = reqs[r].in.txn
        /\ reqs[h].bkind = "mapping"
        /\ reqs[h].bridge = reqs[r].bridge

\* C5: a request that arrived after soft_delete_bridge(b) returned is never
\* given bridge b
C5_DeletedBridgeNeverResolved ==
    \A r \in 1..Len(reqs) : reqs[r].bridge \notin reqs[r].late

\* C6: a bridge marked deleted has no row left in requests,
\* transaction_mappings and room_bridge_mappings
C6_SoftDeleteAtomic ==
    \A b \in deleted :
        /\ \A id \in DOMAIN requests : requests[id].bridge_id # b
        /\ \A t \in DOMAIN txmap : txmap[t].bridge_id # b
        /\ \A room \in DOMAIN roommap : roommap[room] # b

\* C7: a bridge request the homeserver answered with a status that is no
\* success is answered to the bridge with that status
C7_UpstreamStatusPropagated ==
    \A r \in 1..Len(reqs) :
        /\ reqs[r].pc = "done"
        /\ reqs[r].out.to = "homeserver"
        /\ reqs[r].up # 0
        /\ reqs[r].up \notin 200..299
        => reqs[r].status = reqs[r].up

\* C8: a request whose bridge was not found is answered 200 when it is a
\* homeserver request to a transactions path without events and 404
\* otherwise, and nothing is forwarded for it
C8_ResolutionFailureAnswer ==
    \A r \in 1..Len(reqs) :
        reqs[r].err = "bridge" =>
            /\ reqs[r].out = NoOut
            /\ reqs[r].status =
                 IF /\ reqs[r].in.source = "homeserver"
                    /\ reqs[r].in.path.kind = "transactions"
                    /\ reqs[r].in.events = << >>
                 THEN 200 ELSE 404

\* C9: every homeserver request to _matrix/app/v1/ping is answered 200 and
\* nothing is sent for it
C9_HomeserverPingAlwaysLocal ==
    \A r \in 1..Len(reqs) :
        IsHomeserverPing(reqs[r]) /\ reqs[r].pc = "done"
            => reqs[r].status = 200 /\ reqs[r].out = NoOut

IsSendEvent(q) == q.in.source = "bridge" /\ q.in.path.kind = "send"

IsCreateRoom(q) == q.in.source = "bridge" /\ q.in.path.kind = "create_room"

IsRegister(q) == q.in.source = "bridge" /\ q.in.path.kind = "register"

\* C11: a room has a mapping only when some send-event for it was
\* answered with success by the homeserver; a send that failed or timed
\* out leaves the room without one
C11_MappingOnlyAfterForward ==
    \A r \in 1..Len(reqs) :
        /\ IsSendEvent(reqs[r])
        /\ reqs[r].pc = "done"
        /\ reqs[r].up \notin 200..299
        /\ ~\E o \in 1..Len(reqs) :
              /\ IsSendEvent(reqs[o])
              /\ reqs[o].in.path.room = reqs[r].in.path.room
              /\ reqs[o].up \in 200..299
        => RoomBridge(roommap, reqs[r].in.path.room) = NoBridge

C14_AuthorizationPerHop ==
    \A r \in 1..Len(reqs) :
        LET out == reqs[r].out
        IN  /\ out.to = "homeserver" => out.auth = ManagerAsToken
            /\ out.to = "bridge" => out.auth = HsTokenOf(out.bridge)
            /\ out.to # "" => out.auth # reqs[r].in.auth

\* C16: a register request of a bridge that carries a plain user_id query
\* parameter and a plain username in its body is sent to the homeserver
\* with both in the namespace of that bridge
C16_RegisterRewritten ==
    \A r \in 1..Len(reqs) :
        LET q == reqs[r]
        IN  /\ IsRegister(q)
            /\ q.bkind = "service"
            /\ q.in.quser # NoUser /\ ~q.in.quser.enc
            /\ q.in.username # NoUser /\ ~q.in.username.enc
            /\ q.pc \in {"forwarded", "done"}
            => /\ q.out.to = "homeserver"
               /\ q.out.quser = Encoded("whatsapp", q.bridge, q.in.quser.local)
               /\ q.out.username =
                      Encoded("whatsapp", q.bridge, q.in.username.local)

\* C20: a request whose call to the homeserver timed out is answered 504
\* and its audit row, while it exists, ends with response_status 504
C20_TimeoutAnswered504 ==
    \A r \in 1..Len(reqs) :
        reqs[r].timeout =>
            /\ reqs[r].status = 504
            /\ reqs[r].row \in DOMAIN requests
                 => requests[reqs[r].row].response_status = 504

\* C23: once soft_delete_bridge(b) has returned, no row of requests,
\* transaction_mappings or room_bridge_mappings carries bridge b, whatever
\* requests of b were under way or arrive afterwards
C23_NoRowAfterSoftDelete ==
    \A b \in purged :
        /\ \A id \in DOMAIN requests : requests[id].bridge_id # b
        /\ \A t \in DOMAIN txmap : txmap[t].bridge_id # b
        /\ \A room \in DOMAIN roommap : roommap[room] # b

(***************************************************************************)
(* RequestContext.translate_username (appservice/models.py). Usernames are *)
(* strings of characters here, and the two patterns are matched as         *)
(* re.match matches them: from the first character, each class run as far  *)
(* as it goes, whatever follows the last group left over.                  *)
(***************************************************************************)
\* longest username translate_username is applied to
MaxName == 5

\* "a" stands for the characters no pattern tells apart
NameChars == {"@", "_", ":", "/", " ", "a"}

\* \s of the patterns
Whitespace == {" "}

\* BridgeManagerConfig.NAMESPACE
NAMESPACE ==
    <<"_", "b", "r", "i", "d", "g", "e", "_",
      "m", "a", "n", "a", "g", "e", "r", "_", "_">>

\* bridge.bridge_type as f"{bridge_type}" writes it
BridgeTypeChars(b) ==
    IF BridgeServiceOf(b) = "whatsapp"
    THEN <<"w", "h", "a", "t", "s", "a", "p", "p">>
    ELSE <<"d", "i", "s", "c", "o", "r", "d">>

\* bridge.bridge_id as f"{bridge_id}" writes it
BridgeIdChars(b) == CASE b = 1 -> <<"1">> [] b = 2 -> <<"2">> [] OTHER -> <<"3">>

RECURSIVE RunEnd(_, _, _)
\* where a run [^stop]+ that starts at position i of s ends: the position
\* of the first character of stop at or after i, Len(s) + 1 if there is none
RunEnd(s, i, stop) ==
    IF i > Len(s) THEN i
    ELSE IF s[i] \in stop THEN i
    ELSE RunEnd(s, i + 1, stop)

\* the literal lit stands at position i of s
LiteralAt(s, i, lit) ==
    /\ i + Len(lit) - 1 <= Len(s)
    /\ SubSeq(s, i, i + Len(lit) - 1) = lit

NoMatch == [ok |-> FALSE, username |-> << >>, homeserver |-> << >>]

\* re.match(r"@(?P<username>[^:]+):(?P<homeserver>[^\s/]+)", s)
PlainPatternMatch(s) ==
    LET e1 == RunEnd(s, 2, {":"})
        e2 == RunEnd(s, e1 + 1, Whitespace \cup {"/"})
    IN  IF /\ LiteralAt(s, 1, <<"@">>)
           /\ e1 > 2
           /\ LiteralAt(s, e1, <<":">>)
           /\ e2 > e1 + 1
        THEN [ok |-> TRUE, username |-> SubSeq(s, 2, e1 - 1),
              homeserver |-> SubSeq(s, e1 + 1, e2 - 1)]
        ELSE NoMatch

\* re.match(config.username_regex, s); username is the group bridge_username
UsernameRegexMatch(s) ==
    LET p0 == 2 + Len(NAMESPACE)
        e1 == RunEnd(s, p0, {"_"})
        e2 == RunEnd(s, e1 + 1, {"_"})
        e3 == RunEnd(s, e2 + 2, {":"})
        e4 == RunEnd(s, e3 + 1, Whitespace \cup {"/"})
    IN  IF /\ LiteralAt(s, 1, <<"@">> \o NAMESPACE)
           /\ e1 > p0
           /\ LiteralAt(s, e1, <<"_">>)
           /\ e2 > e1 + 1
           /\ LiteralAt(s, e2, <<"_", "_">>)
           /\ e3 > e2 + 2
           /\ LiteralAt(s, e3, <<":">>)
           /\ e4 > e3 + 1
        THEN [ok |-> TRUE, username |-> SubSeq(s, e2 + 2, e3 - 1),
              homeserver |-> SubSeq(s, e3 + 1, e4 - 1)]
        ELSE NoMatch

\* ValueError("username pattern not recognised")
TranslateRaised == [raised |-> TRUE, value |-> << >>]

\* a translation to the bridge that takes everything after the namespace
\* for the bridge username
TranslateUsernameNamespaceOnly(username, to, b) ==
    IF to = "homeserver"
    THEN LET m == PlainPatternMatch(username)
         IN  IF ~m.ok THEN TranslateRaised
             ELSE [raised |-> FALSE,
                   value |-> <<"@">> \o NAMESPACE \o BridgeTypeChars(b) \o <<"_">>
                             \o BridgeIdChars(b) \o <<"_", "_">> \o m.username
                             \o <<":">> \o m.homeserver]
    ELSE LET m == PlainPatternMatch(username)
         IN  IF ~m.ok \/ ~LiteralAt(username, 1, <<"@">> \o NAMESPACE)
             THEN TranslateRaised
             ELSE [raised |-> FALSE,
                   value |-> <<"@">>
                             \o SubSeq(m.username, Len(NAMESPACE) + 1,
                                       Len(m.username))
                             \o <<":">> \o m.homeserver]

\* RequestContext.translate_username(username, to) under bridge b
TranslateUsername(username, to, b) ==
    IF to = "homeserver"
    THEN LET m == PlainPatternMatch(username)
         IN  IF ~m.ok THEN TranslateRaised
             ELSE [raised |-> FALSE,
                   value |-> <<"@">> \o NAMESPACE \o BridgeTypeChars(b) \o <<"_">>
                             \o BridgeIdChars(b) \o <<"_", "_">> \o m.username
                             \o <<":">> \o m.homeserver]
    ELSE LET m == UsernameRegexMatch(username)
         IN  IF ~m.ok THEN TranslateRaised
             ELSE [raised |-> FALSE,
                   value |-> <<"@">> \o m.username \o <<":">> \o m.homeserver]

\* the strings translate_username is tried on
NameStrings == UNION { [1..n -> NameChars] : n \in 0..MaxName }

InitTranslate ==
    /\ txmap = EmptyMap
    /\ roommap = EmptyMap
    /\ requests = EmptyMap
    /\ nextId = 1
    /\ deleted = {}
    /\ sd = [bridge |-> NoBridge, pc |-> "idle"]
    /\ purged = {}
    /\ reqs = << >>
    /\ lastPing = [t \in TxnIds |-> NoBridge]
    /\ lastSend = [room \in RoomIds |-> NoBridge]
    /\ rreq = NoRequest
    /\ rres = NoResult
    /\ rpick = NoUser
    /\ rorder = << >>
    /\ tuser \in NameStrings
    /\ tbridge \in WhatsappBridges
    /\ thome = NotTranslated
    /\ tback = NotTranslated
    /\ routes = << >>
    /\ fallback = NoHandler
    /\ mpath = NoPath
    /\ mres = NoMatchResult
    /\ txrows = << >>
    /\ ucall = NoUpsert
    /\ uold = NoRow
    /\ PipelineIdle

\* translate_username(tuser, to="homeserver")
TranslateToHomeserver ==
    /\ thome = NotTranslated
    /\ thome' = TranslateUsername(tuser, "homeserver", tbridge)
    /\ UNCHANGED <<txmap, roommap, ingressVars, resolverVars, tuser, tbridge,
                   tback, routeVars, upsertVars, pipelineVars>>

\* translate_username of what the first translation returned, to="bridge"
TranslateToBridge ==
    /\ thome # NotTranslated
    /\ ~thome.raised
    /\ tback = NotTranslated
    /\ tback' = TranslateUsername(thome.value, "bridge", tbridge)
    /\ UNCHANGED <<txmap, roommap, ingressVars, resolverVars, tuser, tbridge,
                   thome, routeVars, upsertVars, pipelineVars>>

NextTranslate == TranslateToHomeserver \/ TranslateToBridge

SpecTranslate == InitTranslate /\ [][NextTranslate]_vars

\* the groups bridge_type and bridge_id of re.match(config.username_regex, s)
UsernameRegexIds(s) ==
    LET p0 == 2 + Len(NAMESPACE)
        e1 == RunEnd(s, p0, {"_"})
        e2 == RunEnd(s, e1 + 1, {"_"})
    IN  IF UsernameRegexMatch(s).ok
        THEN [ok |-> TRUE, bridge_type |-> SubSeq(s, p0, e1 - 1),
              bridge_id |-> SubSeq(s, e1 + 1, e2 - 1)]
        ELSE [ok |-> FALSE, bridge_type |-> << >>, bridge_id |-> << >>]

\* the number a group bridge_id stands for, 0 when it is the number of no
\* row
KeyOfChars(chars) ==
    IF \E b \in BridgeIds : BridgeIdChars(b) = chars
    THEN CHOOSE b \in BridgeIds : BridgeIdChars(b) = chars
    ELSE 0

\* the string s as the resolver sees a username: by the groups of
\* username_regex; no strategy reads the group bridge_username
UserOfString(s) ==
    LET m == UsernameRegexIds(s)
    IN  IF ~m.ok THEN NoUser
        ELSE Encoded(IF \E b \in BridgeIds : BridgeTypeChars(b) = m.bridge_type
                     THEN BridgeServiceOf(CHOOSE b \in BridgeIds :
                                            BridgeTypeChars(b) = m.bridge_type)
                     ELSE "",
                     KeyOfChars(m.bridge_id), "bot")

\* s is of the plain form @local:server from its first to its last character
ValidPlain(s) ==
    LET m == PlainPatternMatch(s)
    IN  m.ok /\ Len(s) = Len(m.username) + Len(m.homeserver) + 2

\* C15: a valid plain username translates to the homeserver form without
\* error, and translating that back to the bridge form gives the username
C15_TranslateRoundTrip ==
    ValidPlain(tuser) =>
        /\ thome # NotTranslated => ~thome.raised
        /\ tback # NotTranslated => tback = [raised |-> FALSE, value |-> tuser]

\* a username whose local part starts with an underscore and whose server
\* has a port went there and back
C15_Witness ==
    /\ tuser = <<"@", "_", ":", "a", ":">>
    /\ tback = [raised |-> FALSE, value |-> tuser]


\* C26: the username translate_username(u, to="homeserver") gives under
\* bridge b is resolved to b by each strategy of the resolver that reads an
\* encoded username
C26_TranslatedResolvesBack ==
    (thome # NotTranslated /\ ~thome.raised) =>
        LET u == UserOfString(thome.value)
        IN  /\ FromQueryUserId(InQuery(u)) = tbridge
            /\ FromPathUsername(InPath(u)) = tbridge
            /\ FromTransactionEvents(InEvents(u), u) = tbridge
            /\ FromBodyUsername(InEvents(u)) = tbridge


(***************************************************************************)
(* RouteRegistry (appservice/route_registry.py). A route is its pattern,   *)
(* its handler and its match type. Paths and patterns are strings of       *)
(* characters; in a regex pattern "." stands for any character.            *)
(***************************************************************************)
\* most routes a registry holds
MaxRoutes == 3

\* the handlers that are registered
Handlers == {"h1", "h2"}

\* the patterns that are registered
Patterns == {<<"a">>, <<"a", "b">>, <<".", "b">>}

\* the paths that are matched
Paths == {<<"a">>, <<"b">>, <<"a", "b">>, <<"b", "b">>}

\* RouteMatchType
RouteMatchTypes == {"exact", "regex", "prefix"}

\* re.match(pattern, path) is not None: the pattern from the first
\* character of the path on, whatever follows
RegexMatches(pattern, path) ==
    /\ Len(pattern) <= Len(path)
    /\ \A i \in 1..Len(pattern) : pattern[i] = "." \/ pattern[i] = path[i]

\* path.startswith(pattern)
StartsWith(path, pattern) ==
    /\ Len(pattern) <= Len(path)
    /\ SubSeq(path, 1, Len(pattern)) = pattern

\* Route.matches
RouteMatches(route, path) ==
    CASE route.match_type = "exact" -> path = route.pattern
      [] route.match_type = "regex" -> RegexMatches(route.pattern, path)
      [] route.match_type = "prefix" -> StartsWith(path, route.pattern)
      [] OTHER -> FALSE

RECURSIVE FirstOfType(_, _, _)
\* the handler of the first route of the types given that matches
FirstOfType(rs, path, types) ==
    IF rs = << >> THEN NoHandler
    ELSE IF Head(rs).match_type \in types /\ RouteMatches(Head(rs), path)
         THEN Head(rs).handler
         ELSE FirstOfType(Tail(rs), path, types)

RECURSIVE Match(_, _)
\* a match that looks at the exact routes before all others
MatchExactFirst(rs, path) ==
    IF FirstOfType(rs, path, {"exact"}) # NoHandler
    THEN FirstOfType(rs, path, {"exact"})
    ELSE FirstOfType(rs, path, RouteMatchTypes)

\* RouteRegistry.match: the loop over self._routes
Match(rs, path) ==
    IF rs = << >> THEN NoHandler
    ELSE IF RouteMatches(Head(rs), path) THEN Head(rs).handler
    ELSE Match(Tail(rs), path)

\* RouteRegistry.match_or_fallback
MatchOrFallback(rs, fb, path) ==
    LET handler == Match(rs, path)
    IN  IF handler # NoHandler
        THEN [call |-> "match_or_fallback", handler |-> handler, raised |-> FALSE]
        ELSE IF fb # NoHandler
        THEN [call |-> "match_or_fallback", handler |-> fb, raised |-> FALSE]
        ELSE [call |-> "match_or_fallback", handler |-> NoHandler, raised |-> TRUE]

\* RouteRegistry(fallback_handler) with nothing else under way
InitRoutes ==
    /\ txmap = EmptyMap
    /\ roommap = EmptyMap
    /\ requests = EmptyMap
    /\ nextId = 1
    /\ deleted = {}
    /\ sd = [bridge |-> NoBridge, pc |-> "idle"]
    /\ purged = {}
    /\ reqs = << >>
    /\ lastPing = [t \in TxnIds |-> NoBridge]
    /\ lastSend = [room \in RoomIds |-> NoBridge]
    /\ rreq = NoRequest
    /\ rres = NoResult
    /\ rpick = NoUser
    /\ rorder = << >>
    /\ tuser = << >>
    /\ tbridge = NoBridge
    /\ thome = NotTranslated
    /\ tback = NotTranslated
    /\ routes = << >>
    /\ fallback \in {NoHandler, "unhandled_endpoint"}
    /\ mpath = NoPath
    /\ mres = NoMatchResult
    /\ txrows = << >>
    /\ ucall = NoUpsert
    /\ uold = NoRow
    /\ PipelineIdle

\* add_exact: the route is appended
AddExact(path, handler) ==
    /\ mpath = NoPath
    /\ Len(routes) < MaxRoutes
    /\ routes' = Append(routes, [pattern |-> path, handler |-> handler,
                                 match_type |-> "exact"])
    /\ UNCHANGED <<fallback, mpath, mres>>
    /\ UNCHANGED <<txmap, roommap, ingressVars, resolverVars, translateVars,
                   upsertVars, pipelineVars>>

\* add_regex: the pattern compiles and the route is appended
AddRegex(pattern, handler) ==
    /\ mpath = NoPath
    /\ Len(routes) < MaxRoutes
    /\ routes' = Append(routes, [pattern |-> pattern, handler |-> handler,
                                 match_type |-> "regex"])
    /\ UNCHANGED <<fallback, mpath, mres>>
    /\ UNCHANGED <<txmap, roommap, ingressVars, resolverVars, translateVars,
                   upsertVars, pipelineVars>>

\* add_prefix: the route is appended
AddPrefix(prefix, handler) ==
    /\ mpath = NoPath
    /\ Len(routes) < MaxRoutes
    /\ routes' = Append(routes, [pattern |-> prefix, handler |-> handler,
                                 match_type |-> "prefix"])
    /\ UNCHANGED <<fallback, mpath, mres>>
    /\ UNCHANGED <<txmap, roommap, ingressVars, resolverVars, translateVars,
                   upsertVars, pipelineVars>>

\* remove_pattern: the routes of other patterns stay in their order
RemovePattern(pattern) ==
    /\ mpath = NoPath
    /\ \E i \in 1..Len(routes) : routes[i].pattern = pattern
    /\ routes' = SelectSeq(routes, LAMBDA route : route.pattern # pattern)
    /\ UNCHANGED <<fallback, mpath, mres>>
    /\ UNCHANGED <<txmap, roommap, ingressVars, resolverVars, translateVars,
                   upsertVars, pipelineVars>>

\* match(path)
MatchCall(path) ==
    /\ mpath = NoPath
    /\ mpath' = path
    /\ mres' = [call |-> "match", handler |-> Match(routes, path),
                raised |-> FALSE]
    /\ UNCHANGED <<routes, fallback>>
    /\ UNCHANGED <<txmap, roommap, ingressVars, resolverVars, translateVars,
                   upsertVars, pipelineVars>>

\* match_or_fallback(path)
MatchOrFallbackCall(path) ==
    /\ mpath = NoPath
    /\ mpath' = path
    /\ mres' = MatchOrFallback(routes, fallback, path)
    /\ UNCHANGED <<routes, fallback>>
    /\ UNCHANGED <<txmap, roommap, ingressVars, resolverVars, translateVars,
                   upsertVars, pipelineVars>>

\* the caller is done with the handler
MatchReturn ==
    /\ mpath # NoPath
    /\ mpath' = NoPath
    /\ mres' = NoMatchResult
    /\ UNCHANGED <<routes, fallback>>
    /\ UNCHANGED <<txmap, roommap, ingressVars, resolverVars, translateVars,
                   upsertVars, pipelineVars>>

NextRoutes ==
    \/ \E pattern \in Patterns, handler \in Handlers : AddExact(pattern, handler)
    \/ \E pattern \in Patterns, handler \in Handlers : AddRegex(pattern, handler)
    \/ \E pattern \in Patterns, handler \in Handlers : AddPrefix(pattern, handler)
    \/ \E pattern \in Patterns : RemovePattern(pattern)
    \/ \E path \in Paths : MatchCall(path)
    \/ \E path \in Paths : MatchOrFallbackCall(path)
    \/ MatchReturn

SpecRoutes == InitRoutes /\ [][NextRoutes]_vars

\* the positions of the routes that match the path of the call
MatchingRoutes == { i \in 1..Len(routes) : RouteMatches(routes[i], mpath) }

\* C17: match returns the handler of the matching route that was
\* registered first, whatever the match types and patterns of the routes
\* registered after it, and None when no route matches; match_or_fallback
\* returns the same handler when a route matches
C17_FirstRegisteredWins ==
    mpath # NoPath =>
        IF MatchingRoutes = {}
        THEN mres.call = "match" => mres.handler = NoHandler
        ELSE \E i \in MatchingRoutes :
                /\ \A j \in MatchingRoutes : i <= j
                /\ mres.handler = routes[i].handler
                /\ ~mres.raised

\* match gave the handler of a regex route although an exact route of the
\* path and a second regex route of the same pattern, both with another
\* handler, were registered after it
C17_Witness ==
    /\ mpath = <<"a", "b">>
    /\ mres.call = "match"
    /\ Len(routes) = 3
    /\ routes[1] = [pattern |-> <<".", "b">>, handler |-> "h1",
                    match_type |-> "regex"]
    /\ routes[2] = [pattern |-> <<"a", "b">>, handler |-> "h2",
                    match_type |-> "exact"]
    /\ routes[3] = [pattern |-> <<".", "b">>, handler |-> "h2",
                    match_type |-> "regex"]
    /\ mres.handler = "h1"

(***************************************************************************)
(* TransactionMappingsRepository (database/repositories.py) on the table   *)
(* as a sequence of rows, so that two rows of one transaction_id can be    *)
(* told from one. NoToken and NoBridge are the argument None.              *)
(***************************************************************************)
\* the transaction ids, tokens and bridge ids upsert is called with
UpsertTxnIds == {<<"1">>, <<"a">>}
UpsertTokens == {NoToken, AsTokenOf(1), AsTokenOf(2)}
UpsertBridges == {NoBridge, 1, 2}

\* select(self.model).where(self.model.transaction_id == transaction_id):
\* the positions of the rows selected
RowsOfTransaction(rows, t) ==
    { i \in 1..Len(rows) : rows[i].transaction_id = t }

\* an upsert that adds a row whether or not the id has one
UpsertRowsAlwaysInsert(rows, t, tok, b) ==
    Append(rows, [transaction_id |-> t, bridge_as_token |-> tok,
                  bridge_id |-> b])

\* TransactionMappingsRepository.upsert; scalar_one_or_none raises when it
\* finds two rows, which leaves the table as it is
UpsertRows(rows, t, tok, b) ==
    LET found == RowsOfTransaction(rows, t)
    IN  IF Cardinality(found) > 1 THEN rows
        ELSE IF found # {}
        THEN LET i == CHOOSE k \in found : TRUE
             IN  [rows EXCEPT ![i] =
                    [transaction_id |-> t,
                     bridge_as_token |->
                        IF tok # NoToken THEN tok ELSE @.bridge_as_token,
                     bridge_id |-> IF b # NoBridge THEN b ELSE @.bridge_id]]
        ELSE Append(rows, [transaction_id |-> t, bridge_as_token |-> tok,
                           bridge_id |-> b])

\* TransactionMappingsRepository.delete_by_bridge_id
DeleteRowsByBridge(rows, b) ==
    SelectSeq(rows, LAMBDA row : row.bridge_id # b)

\* TransactionMappingsRepository.get_bridge_by_transaction: the row or none
RowOfTransaction(rows, t) ==
    IF RowsOfTransaction(rows, t) = {} THEN NoRow
    ELSE rows[CHOOSE i \in RowsOfTransaction(rows, t) : TRUE]

InitUpsert ==
    /\ txmap = EmptyMap
    /\ roommap = EmptyMap
    /\ requests = EmptyMap
    /\ nextId = 1
    /\ deleted = {}
    /\ sd = [bridge |-> NoBridge, pc |-> "idle"]
    /\ purged = {}
    /\ reqs = << >>
    /\ lastPing = [t \in TxnIds |-> NoBridge]
    /\ lastSend = [room \in RoomIds |-> NoBridge]
    /\ rreq = NoRequest
    /\ rres = NoResult
    /\ rpick = NoUser
    /\ rorder = << >>
    /\ FunctionsIdle

\* upsert(transaction_id, bridge_as_token, bridge_id)
UpsertCall(t, tok, b) ==
    /\ txrows' = UpsertRows(txrows, t, tok, b)
    /\ txmap' = TxUpsert(txmap, t, tok, b)
    /\ ucall' = [transaction_id |-> t, bridge_as_token |-> tok, bridge_id |-> b]
    /\ uold' = RowOfTransaction(txrows, t)
    /\ UNCHANGED <<roommap, ingressVars, resolverVars, translateVars, routeVars,
                   pipelineVars>>

\* delete_by_bridge_id(bridge_id)
DeleteByBridgeCall(b) ==
    /\ \E i \in 1..Len(txrows) : txrows[i].bridge_id = b
    /\ txrows' = DeleteRowsByBridge(txrows, b)
    /\ txmap' = TxDeleteByBridge(txmap, b)
    /\ ucall' = NoUpsert
    /\ uold' = NoRow
    /\ UNCHANGED <<roommap, ingressVars, resolverVars, translateVars, routeVars,
                   pipelineVars>>

NextUpsert ==
    \/ \E t \in UpsertTxnIds, tok \in UpsertTokens, b \in UpsertBridges :
         UpsertCall(t, tok, b)
    \/ \E b \in UpsertBridges : DeleteByBridgeCall(b)

SpecUpsert == InitUpsert /\ [][NextUpsert]_vars

\* the table of rows holds what the function txmap of the other
\* specifications holds
TxmapIsTableOfRows ==
    /\ \A t \in UpsertTxnIds : Cardinality(RowsOfTransaction(txrows, t)) <= 1
    /\ DOMAIN txmap = { txrows[i].transaction_id : i \in 1..Len(txrows) }
    /\ \A i \in 1..Len(txrows) :
         txmap[txrows[i].transaction_id] =
            [bridge_as_token |-> txrows[i].bridge_as_token,
             bridge_id |-> txrows[i].bridge_id]

BridgeManagerIdle ==
    /\ txmap = EmptyMap
    /\ roommap = EmptyMap
    /\ requests = EmptyMap
    /\ nextId = 1
    /\ deleted = {}
    /\ sd = [bridge |-> NoBridge, pc |-> "idle"]
    /\ purged = {}
    /\ reqs = << >>
    /\ lastPing = [t \in TxnIds |-> NoBridge]
    /\ lastSend = [room \in RoomIds |-> NoBridge]
    /\ rreq = NoRequest
    /\ rres = NoResult
    /\ rpick = NoUser
    /\ rorder = << >>
    /\ tuser = << >>
    /\ tbridge = NoBridge
    /\ thome = NotTranslated
    /\ tback = NotTranslated
    /\ routes = << >>
    /\ fallback = NoHandler
    /\ mpath = NoPath
    /\ mres = NoMatchResult
    /\ txrows = << >>
    /\ ucall = NoUpsert
    /\ uold = NoRow
    /\ RaceIdle

\* the jobs a queue holds at most
MaxJobs == 3

\* the calls of process_unprocessed_events
MaxBackfills == 1

\* the event_ids of public.event_json
EventIds == {"e1", "e2"}

\* what an event of public.event_json holds: a room message with a msgtype
\* of the mapper (m.text without url, m.image with url), a room message
\* with another msgtype, one with empty content, one that lacks a field of
\* RoomMessageEvent, and an event of another type
EventKinds == {"m.text", "m.image", "m.notice", "no_content", "malformed",
               "m.room.member"}

\* the payloads that are valid room messages for RoomMessageEvent
ValidRoomMessages == {"m.text", "m.image"}

\* _create_event_object_from_payload: the event object, None after a logged
\* NoContentInRoomMessageEvent or UnsupportedMessageContentType, or the
\* exception that leaves the function
CreateEventObjectFromPayload(kind) ==
    CASE kind \in ValidRoomMessages -> "RoomMessageEvent"
      [] kind \in {"m.notice", "no_content"} -> "None"
      [] kind = "malformed" -> "ValidationError"
      [] OTHER -> "UnsupportedEventTypeError"

\* ParsedMessagesRepository.create: the row is added; event_id is the
\* primary key, so a second row of an event_id raises
ParsedCreateRaises(table, e) == e \in table

\* _mark_event_processed without effect
MarkEventProcessedNot(table, e) == table
\* _mark_event_processed: the row of processed_events
MarkEventProcessed(table, e) == table \cup {e}

\* the steps of process_event for a room message after the insert, in the
\* order of the code
ProcessSteps == <<"mark", "enqueue">>

\* the step after step s, or "done"
StepAfter(s) ==
    IF s = ProcessSteps[1] THEN ProcessSteps[2] ELSE "done"

\* the events of event_json without a row in processed_events
GetUnprocessedEvents == eventJson \ processedEvents

InitEvents ==
    /\ BridgeManagerIdle
    /\ eventKind \in [EventIds -> EventKinds]
    /\ eventJson = {}
    /\ epQueue = << >>
    /\ parsedMessages = {}
    /\ processedEvents = {}
    /\ vsQueue = << >>
    /\ epw = [w \in Workers |-> IdleWorker]
    /\ backfills = 0
    /\ VectorIdle

\* EventListener.run: the homeserver inserts an event, the notification
\* arrives and its payload is enqueued
Listen(e) ==
    /\ e \notin eventJson
    /\ Len(epQueue) < MaxJobs
    /\ eventJson' = eventJson \cup {e}
    /\ epQueue' = Append(epQueue, e)
    /\ UNCHANGED <<eventKind, parsedMessages, processedEvents, vsQueue, epw,
                   backfills, bridgeVars, vectorVars>>

\* the homeserver inserts an event while no listener is running
InsertUnheard(e) ==
    /\ e \notin eventJson
    /\ eventJson' = eventJson \cup {e}
    /\ UNCHANGED <<eventKind, epQueue, parsedMessages, processedEvents,
                   vsQueue, epw, backfills, bridgeVars, vectorVars>>

\* EventBackfiller.process_unprocessed_events: every unprocessed event is
\* enqueued, in the order the query returned them
ProcessUnprocessedEvents ==
    /\ backfills < MaxBackfills
    /\ GetUnprocessedEvents # {}
    /\ Len(epQueue) + Cardinality(GetUnprocessedEvents) <= MaxJobs
    /\ \E q \in Orders(GetUnprocessedEvents) : epQueue' = epQueue \o q
    /\ backfills' = backfills + 1
    /\ UNCHANGED <<eventKind, eventJson, parsedMessages, processedEvents,
                   vsQueue, epw, bridgeVars, vectorVars>>

\* process_event up to the insert: the payload is taken from the queue and
\* the event object is created
ProcessEvent(w) ==
    /\ epw[w].pc \in {"idle", "done"}
    /\ epQueue # << >>
    /\ epQueue' = Tail(epQueue)
    /\ LET e == Head(epQueue)
           obj == CreateEventObjectFromPayload(eventKind[e])
       IN  epw' = [epw EXCEPT ![w] =
             CASE obj = "RoomMessageEvent" ->
                    [pc |-> "insert", event |-> e, fresh |-> FALSE, ret |-> "None"]
               [] obj = "ValidationError" ->
                    [pc |-> "done", event |-> e, fresh |-> FALSE, ret |-> "raised"]
               [] OTHER ->
                    [pc |-> "done", event |-> e, fresh |-> FALSE, ret |-> "None"]]
    /\ UNCHANGED <<eventKind, eventJson, parsedMessages, processedEvents,
                   vsQueue, backfills, bridgeVars, vectorVars>>

\* _insert_room_message_event; an exception is logged and process_event
\* returns None
InsertRoomMessageEvent(w) ==
    /\ epw[w].pc = "insert"
    /\ LET e == epw[w].event
       IN  IF ParsedCreateRaises(parsedMessages, e)
           THEN /\ epw' = [epw EXCEPT ![w].pc = "done", ![w].ret = "None"]
                /\ UNCHANGED parsedMessages
           ELSE /\ parsedMessages' = parsedMessages \cup {e}
                /\ epw' = [epw EXCEPT ![w].pc = ProcessSteps[1], ![w].fresh = TRUE]
    /\ UNCHANGED <<eventKind, eventJson, epQueue, processedEvents, vsQueue,
                   backfills, bridgeVars, vectorVars>>

\* _mark_event_processed
MarkProcessed(w) ==
    /\ epw[w].pc = "mark"
    /\ LET e == epw[w].event
       IN  IF e \in processedEvents
           THEN /\ epw' = [epw EXCEPT ![w].pc = "done", ![w].ret = "None"]
                /\ UNCHANGED processedEvents
           ELSE /\ processedEvents' = MarkEventProcessed(processedEvents, e)
                /\ epw' = [epw EXCEPT ![w].pc = StepAfter("mark"),
                                      ![w].ret = IF StepAfter("mark") = "done"
                                                 THEN "job" ELSE @]
    /\ UNCHANGED <<eventKind, eventJson, epQueue, parsedMessages, vsQueue,
                   backfills, bridgeVars, vectorVars>>

\* _send_message_to_vector_store: the job is enqueued, or the queue cannot
\* be reached and the exception is logged
SendMessageToVectorStore(w, reached) ==
    /\ epw[w].pc = "enqueue"
    /\ IF reached
       THEN /\ vsQueue' = Append(vsQueue, epw[w].event)
            /\ epw' = [epw EXCEPT ![w].pc = StepAfter("enqueue"),
                                  ![w].ret = IF StepAfter("enqueue") = "done"
                                             THEN "job" ELSE @]
       ELSE /\ epw' = [epw EXCEPT ![w].pc = "done", ![w].ret = "None"]
            /\ UNCHANGED vsQueue
    /\ UNCHANGED <<eventKind, eventJson, epQueue, parsedMessages,
                   processedEvents, backfills, bridgeVars, vectorVars>>

NextEvents ==
    \/ \E e \in EventIds : Listen(e)
    \/ \E e \in EventIds : InsertUnheard(e)
    \/ ProcessUnprocessedEvents
    \/ \E w \in Workers : ProcessEvent(w)
    \/ \E w \in Workers : InsertRoomMessageEvent(w)
    \/ \E w \in Workers : MarkProcessed(w)
    \/ \E w \in Workers, reached \in BOOLEAN : SendMessageToVectorStore(w, reached)

SpecEvents == InitEvents /\ [][NextEvents]_vars

\* the messages enqueued with the vector store
Enqueued == { vsQueue[i] : i \in 1..Len(vsQueue) }

\* process_event has returned for a valid room message
Returned(w) ==
    /\ epw[w].pc = "done"
    /\ eventKind[epw[w].event] \in ValidRoomMessages
    /\ epw[w].ret # "raised"

C29_ProcessedOnlyIfEnqueued ==
    \A w \in Workers :
        Returned(w) /\ epw[w].fresh =>
            IF epw[w].event \in Enqueued
            THEN epw[w].event \in processedEvents
            ELSE epw[w].event \in GetUnprocessedEvents

(***************************************************************************)
(* VectorStore (vector_store/vector_store.py): the jobs of queue           *)
(* vector_store over the tables transcripts and transcript_chunks of one   *)
(* room. The tables outlive the workers: transcripts starts with the rows  *)
(* stored before.                                                          *)
(***************************************************************************)

\* VectorStore.MESSAGES_CHUNK_SIZE, scaled down
MESSAGES_CHUNK_SIZE == 2

\* VectorStore.MESSAGES_CHUNK_OVERLAP, scaled down
MESSAGES_CHUNK_OVERLAP == 1

\* VectorStore.OLDEST_ROOM_MESSAGE_WAIT_TIME_SECONDS
OLDEST_ROOM_MESSAGE_WAIT_TIME_SECONDS == 10

\* the seconds of a day: timedelta.seconds is the remainder below it
DaySeconds == 86400

\* the seconds since the oldest transcript was stored, as tried: at once,
\* at the wait time, past it, and a day and five seconds later
ElapsedChoices == {0, 10, 11, 86405}

\* the time has not been read
NotRead == -1

\* the jobs enqueued at most
MaxVectorJobs == 3

\* the rows transcripts can start with: t1 and t2 carry the same
\* message_timestamp, t2 and t3 the same depth
TranscriptRows ==
    { [event_id |-> "t1", message_timestamp |-> 1, depth |-> 1],
      [event_id |-> "t2", message_timestamp |-> 1, depth |-> 2],
      [event_id |-> "t3", message_timestamp |-> 2, depth |-> 2] }

\* the parsed messages handed to process_message: one with a transcript,
\* a new text message, a new image
VectorMessages ==
    { [fn |-> "process_message", event_id |-> "t1", message_type |-> "m.text"],
      [fn |-> "process_message", event_id |-> "t4", message_type |-> "m.text"],
      [fn |-> "process_message", event_id |-> "t5", message_type |-> "m.image"] }

\* the row Transcriber builds of a parsed message
TranscriptOf(msg) ==
    [event_id |-> msg.event_id, message_timestamp |-> 3, depth |-> 3]

\* the job initialise_room(room_id)
InitialiseJob == [fn |-> "initialise_room", event_id |-> "", message_type |-> ""]

\* the attributes of class Transcript with those of TimestampMixin
TranscriptColumns ==
    {"event_id", "room_id", "sender_matrix_user_id", "message_timestamp",
     "depth", "transcript", "created_at", "updated_at"}

\* the keyword arguments _insert_into_database gives to Transcript(...)
TranscriptKeywords ==
    {"event_id", "room_id", "sender_matrix_user_id",
     "sender_matrix_display_name", "message_timestamp", "depth",
     "transcript", "body"}

\* the constructor of a declarative class raises TypeError for a keyword
\* that is no attribute of the class
ConstructorRaises == ~(TranscriptKeywords \subseteq TranscriptColumns)

\* Transcriber.transcribe(parsed_message, insert_into_database=True) on a
\* message without transcript: the table afterwards, or the exception
Transcribe(table, msg) ==
    IF ConstructorRaises
    THEN [raised |-> TRUE, table |-> table]
    ELSE [raised |-> FALSE, table |-> table \cup {TranscriptOf(msg)}]

\* TranscriptsRepository.get_by_event_id
HasTranscript(table, e) == \E t \in table : t.event_id = e

\* _is_oldest_message_received, from the seconds elapsed since created_at
IsOldestMessageReceived(elapsed) ==
    (elapsed % DaySeconds) > OLDEST_ROOM_MESSAGE_WAIT_TIME_SECONDS

\* get_oldest_message_by_room_id: the rows of minimal depth; .one() raises
\* unless there is exactly one
OldestRows(table) ==
    { t \in table : \A u \in table : t.depth <= u.depth }

\* the rows S in an order the database can return them in for
\* order by message_timestamp asc
TimestampOrders(S) ==
    { o \in Orders(S) :
        \A i, j \in 1..Cardinality(S) :
            i < j => o[i].message_timestamp <= o[j].message_timestamp }

\* the event_ids of a sequence of rows
EventIdsOf(rows) == [i \in 1..Len(rows) |-> rows[i].event_id]

\* _create_transcript_chunks: the event_ids of the chunks of a sequence of
\* transcripts; partial chunks are not made
CreateTranscriptChunks(rows) ==
    LET n == Len(rows)
        stride == MESSAGES_CHUNK_SIZE - MESSAGES_CHUNK_OVERLAP
        count == 1 + ((n - MESSAGES_CHUNK_SIZE) \div stride)
        num_chunks == IF count < 0 THEN 0 ELSE count
        chunk(i) ==
            LET start == (i - 1) * stride
                stop == start + MESSAGES_CHUNK_SIZE
            IN  EventIdsOf(SubSeq(rows, start + 1,
                                  IF stop >= n THEN n ELSE stop))
    IN  [i \in 1..num_chunks |-> chunk(i)]

\* the depth of the transcript of event e
DepthOf(table, e) == (CHOOSE t \in table : t.event_id = e).depth

\* get_max_message_depth_by_room_id
MaxMessageDepth(table, rows) ==
    LET depths == UNION { { DepthOf(table, rows[i][k]) : k \in 1..Len(rows[i]) } :
                          i \in 1..Len(rows) }
    IN  CHOOSE d \in depths : \A e \in depths : e <= d

\* get_new_messages_for_chunking: the rows deeper than the newest chunk and
\* the chunk_overlap deepest rows below, as the sets the database can pick
NewMessagesForChunking(table, maxDepth) ==
    LET newer == { t \in table : t.depth > maxDepth }
        older == { t \in table : t.depth <= maxDepth }
        k == IF Cardinality(older) < MESSAGES_CHUNK_OVERLAP
             THEN Cardinality(older) ELSE MESSAGES_CHUNK_OVERLAP
    IN  { newer \cup top :
            top \in { T \in SUBSET older :
                        /\ Cardinality(T) = k
                        /\ \A t \in T, u \in older \ T : t.depth >= u.depth } }

\* transcript_chunks.event_ids is unique: create raises for an array of
\* event_ids that a row holds already
UniqueViolated(rows, chunk) == \E i \in 1..Len(rows) : rows[i] = chunk

\* a worker at the end of its job
Ended(wk, ret) == [wk EXCEPT !.pc = "done", !.todo = << >>, !.ret = ret]

InitVector ==
    /\ BridgeManagerIdle
    /\ EventsIdle
    /\ transcripts \in SUBSET TranscriptRows
    /\ chunks = << >>
    /\ vsJobs = << >>
    /\ vsw = [w \in Workers |-> IdleVectorWorker]
    /\ vsCalls = 0

\* VectorStoreQueue.enqueue_message
EnqueueMessage(msg) ==
    /\ vsCalls < MaxVectorJobs
    /\ vsJobs' = Append(vsJobs, msg)
    /\ vsCalls' = vsCalls + 1
    /\ UNCHANGED <<transcripts, chunks, vsw, bridgeVars, eventVars>>

\* VectorStoreQueue.enqueue_room_initialisation(room_id)
EnqueueRoomInitialisation ==
    /\ vsCalls < MaxVectorJobs
    /\ vsJobs' = Append(vsJobs, InitialiseJob)
    /\ vsCalls' = vsCalls + 1
    /\ UNCHANGED <<transcripts, chunks, vsw, bridgeVars, eventVars>>

\* process_message to the transcript: another message type and a message
\* with a transcript return; otherwise the message is transcribed and the
\* room is looked at next
ProcessMessage(w) ==
    /\ vsw[w].pc \in {"idle", "done"}
    /\ vsJobs # << >>
    /\ Head(vsJobs).fn = "process_message"
    /\ vsJobs' = Tail(vsJobs)
    /\ LET msg == Head(vsJobs)
           taken == [pc |-> "room", job |-> msg, todo |-> << >>,
                     elapsed |-> NotRead, ret |-> "None"]
           result == Transcribe(transcripts, msg)
       IN  IF msg.message_type # "m.text" \/ HasTranscript(transcripts, msg.event_id)
           THEN vsw' = [vsw EXCEPT ![w] = Ended(taken, "None")]
                /\ UNCHANGED transcripts
           ELSE IF result.raised
           THEN vsw' = [vsw EXCEPT ![w] = Ended(taken, "raised")]
                /\ UNCHANGED transcripts
           ELSE vsw' = [vsw EXCEPT ![w] = taken]
                /\ transcripts' = result.table
    /\ UNCHANGED <<chunks, vsCalls, bridgeVars, eventVars>>

\* a worker takes the job initialise_room
InitialiseRoomJob(w) ==
    /\ vsw[w].pc \in {"idle", "done"}
    /\ vsJobs # << >>
    /\ Head(vsJobs).fn = "initialise_room"
    /\ vsJobs' = Tail(vsJobs)
    /\ vsw' = [vsw EXCEPT ![w] = [pc |-> "room", job |-> Head(vsJobs),
                                  todo |-> << >>, elapsed |-> NotRead,
                                  ret |-> "None"]]
    /\ UNCHANGED <<transcripts, chunks, vsCalls, bridgeVars, eventVars>>

\* initialise_room to its inserts: the chunks to insert, a return without
\* chunks, or an exception (no oldest row or several; the import of
\* vector_store_queue, which is no top-level module)
InitialiseRoom(wk, elapsed, order) ==
    IF Len(chunks) > 0 THEN Ended(wk, "None")
    ELSE IF Cardinality(OldestRows(transcripts)) # 1 THEN Ended(wk, "raised")
    ELSE IF ~IsOldestMessageReceived(elapsed)
    THEN Ended([wk EXCEPT !.elapsed = elapsed], "raised")
    ELSE IF ~(Cardinality(transcripts) >= MESSAGES_CHUNK_SIZE)
    THEN Ended([wk EXCEPT !.elapsed = elapsed], "None")
    ELSE [wk EXCEPT !.pc = "insert", !.elapsed = elapsed,
                    !.todo = CreateTranscriptChunks(order)]

\* update_room to its inserts
UpdateRoom(wk, rows) ==
    IF ~(Len(rows) >= MESSAGES_CHUNK_SIZE) THEN Ended(wk, "None")
    ELSE IF CreateTranscriptChunks(rows) = << >> THEN Ended(wk, "None")
    ELSE [wk EXCEPT !.pc = "insert", !.todo = CreateTranscriptChunks(rows)]

\* the reads of a job about its room: process_message counts the chunks and
\* goes on with initialise_room or update_room, the job initialise_room
\* starts there
ReadRoom(w, elapsed) ==
    /\ vsw[w].pc = "room"
    /\ IF vsw[w].job.fn = "process_message" /\ Len(chunks) > 0
       THEN \E S \in NewMessagesForChunking(transcripts,
                                            MaxMessageDepth(transcripts, chunks)) :
            \E rows \in TimestampOrders(S) :
                vsw' = [vsw EXCEPT ![w] = UpdateRoom(vsw[w], rows)]
       ELSE \E order \in TimestampOrders(transcripts) :
                vsw' = [vsw EXCEPT ![w] = InitialiseRoom(vsw[w], elapsed, order)]
    /\ UNCHANGED <<transcripts, chunks, vsJobs, vsCalls, bridgeVars, eventVars>>

\* _insert_chunk_into_database of the next chunk: TranscriptChunksRepository
\* .create commits the row or raises on the unique event_ids
InsertChunk(w) ==
    /\ vsw[w].pc = "insert"
    /\ LET chunk == Head(vsw[w].todo)
       IN  IF UniqueViolated(chunks, chunk)
           THEN /\ vsw' = [vsw EXCEPT ![w] = Ended(vsw[w], "raised")]
                /\ UNCHANGED chunks
           ELSE /\ chunks' = Append(chunks, chunk)
                /\ vsw' = [vsw EXCEPT ![w] =
                             IF Len(vsw[w].todo) = 1 THEN Ended(vsw[w], "None")
                             ELSE [vsw[w] EXCEPT !.todo = Tail(@)]]
    /\ UNCHANGED <<transcripts, vsJobs, vsCalls, bridgeVars, eventVars>>

NextVector ==
    \/ \E msg \in VectorMessages : EnqueueMessage(msg)
    \/ EnqueueRoomInitialisation
    \/ \E w \in Workers : ProcessMessage(w)
    \/ \E w \in Workers : InitialiseRoomJob(w)
    \/ \E w \in Workers, elapsed \in ElapsedChoices : ReadRoom(w, elapsed)
    \/ \E w \in Workers : InsertChunk(w)

SpecVector == InitVector /\ [][NextVector]_vars

\* process_message has returned or raised for a text message
Processed(w) ==
    /\ vsw[w].pc = "done"
    /\ vsw[w].job.fn = "process_message"
    /\ vsw[w].job.message_type = "m.text"

\* C22: after process_message of a text message the transcript of its
\* event_id exists, and when the room then holds MESSAGES_CHUNK_SIZE
\* transcripts and its oldest was seen older than the wait time, the room
\* has a transcript chunk
C22_TranscriptAndChunk ==
    \A w \in Workers :
        Processed(w) =>
            /\ HasTranscript(transcripts, vsw[w].job.event_id)
            /\ ( /\ Cardinality(transcripts) >= MESSAGES_CHUNK_SIZE
                 /\ vsw[w].elapsed > OLDEST_ROOM_MESSAGE_WAIT_TIME_SECONDS )
                 => chunks # << >>

RaceBridges == {1, 2}

\* the unique constraint on transaction_id refuses a row of t
UniqueViolation(rows, t) == RowsOfTransaction(rows, t) # {}

\* the commit of the else branch: INSERT of the new row
CommitInsert(rows, call) == Append(rows, call)

\* the commit of the branch of an existing row: UPDATE of the attributes
\* whose value the call changed from what the select had loaded
CommitUpdate(rows, call, seen) ==
    [i \in 1..Len(rows) |->
        IF rows[i].transaction_id # call.transaction_id THEN rows[i]
        ELSE [transaction_id |-> rows[i].transaction_id,
              bridge_as_token |->
                 IF /\ call.bridge_as_token # NoToken
                    /\ call.bridge_as_token # seen.bridge_as_token
                 THEN call.bridge_as_token ELSE rows[i].bridge_as_token,
              bridge_id |->
                 IF call.bridge_id # NoBridge /\ call.bridge_id # seen.bridge_id
                 THEN call.bridge_id ELSE rows[i].bridge_id]]

InitRace == BridgeManagerIdle /\ EventsIdle /\ VectorIdle

\* upsert is entered and the select is run
RaceSelect(w, t, b) ==
    /\ uw[w].pc = "idle"
    /\ uw' = [uw EXCEPT ![w] =
                [pc |-> "selected",
                 call |-> [transaction_id |-> t, bridge_as_token |-> AsTokenOf(b),
                           bridge_id |-> b],
                 seen |-> RowOfTransaction(txrows, t),
                 ret |-> "None"]]
    /\ UNCHANGED <<txmap, roommap, ingressVars, resolverVars, translateVars,
                   routeVars, upsertVars, eventVars, vectorVars>>

\* session.commit() of the call: the update of the row selected, or the
\* insert, which raises IntegrityError when the transaction_id has a row by
\* now
RaceCommit(w) ==
    /\ uw[w].pc = "selected"
    /\ IF uw[w].seen # NoRow
       THEN /\ txrows' = CommitUpdate(txrows, uw[w].call, uw[w].seen)
            /\ uw' = [uw EXCEPT ![w].pc = "done", ![w].ret = "row"]
       ELSE IF UniqueViolation(txrows, uw[w].call.transaction_id)
            THEN /\ txrows' = txrows
                 /\ uw' = [uw EXCEPT ![w].pc = "done",
                                     ![w].ret = "IntegrityError"]
            ELSE /\ txrows' = CommitInsert(txrows, uw[w].call)
                 /\ uw' = [uw EXCEPT ![w].pc = "done", ![w].ret = "row"]
    /\ UNCHANGED <<txmap, roommap, ingressVars, resolverVars, translateVars,
                   routeVars, ucall, uold, eventVars, vectorVars>>

\* the caller has its answer and may call again
RaceReturn(w) ==
    /\ uw[w].pc = "done"
    /\ uw' = [uw EXCEPT ![w] = IdleCaller]
    /\ UNCHANGED <<txmap, roommap, ingressVars, resolverVars, translateVars,
                   routeVars, upsertVars, eventVars, vectorVars>>

NextRace ==
    \/ \E w \in Workers, t \in UpsertTxnIds, b \in RaceBridges :
         RaceSelect(w, t, b)
    \/ \E w \in Workers : RaceCommit(w)
    \/ \E w \in Workers : RaceReturn(w)

SpecRace == InitRace /\ [][NextRace]_vars

\* two calls of one transaction_id that both ran their select before the
\* transaction_id had a row, both ended
RacedOnNewKey(v, w) ==
    /\ v # w
    /\ uw[v].pc = "done" /\ uw[w].pc = "done"
    /\ uw[v].call.transaction_id = uw[w].call.transaction_id
    /\ uw[v].seen = NoRow /\ uw[w].seen = NoRow

\* C27: two upserts of one transaction_id that ran at the same time while
\* the transaction_id had no row both returned a row, and the table holds
\* one row of the transaction_id whose values are those of one of the calls
C27_ConcurrentUpsertsBothComplete ==
    \A v, w \in Workers : RacedOnNewKey(v, w) =>
        /\ uw[v].ret = "row" /\ uw[w].ret = "row"
        /\ Cardinality(RowsOfTransaction(txrows, uw[v].call.transaction_id)) = 1
        /\ RowOfTransaction(txrows, uw[v].call.transaction_id)
              \in {uw[v].call, uw[w].call}

====
